---- MODULE Spec2Model ----
(***************************************************************************)
(* Model of gdoc-comments-md: the document-to-markdown transformer         *)
(* (src/lib/services/transformer.ts) and the pagination layer              *)
(* (src/lib/utils/pagination.ts).                                          *)
(*                                                                         *)
(* A string is a sequence of one-character strings, so that substring      *)
(* search, replacement, trimming and joining are computed as the code      *)
(* computes them.                                                          *)
(***************************************************************************)
EXTENDS Integers, Sequences, FiniteSets, TLC

VARIABLES
    doc,               \* transformToMarkdown: the document argument
    threads,           \* transformToMarkdown: the threads argument
    lines,             \* transformToMarkdown: const lines: string[]
    prevWasList,       \* transformToMarkdown: let prevWasList
    idx,               \* transformToMarkdown: position of the for-of loop (0-based)
    result,            \* transformToMarkdown: the returned string
    pc,                \* position in the running function
    elements,          \* estimatePages / filterByPageRange: elements argument
    charsPerPage,      \* estimatePages / filterByPageRange: charsPerPage argument
    pages,             \* estimatePages: const pages: PageBoundary[]
    currentPageStart,  \* estimatePages: let currentPageStart
    currentCharCount,  \* estimatePages: let currentCharCount
    pageNumber,        \* estimatePages: let pageNumber
    i,                 \* estimatePages: loop index i
    request,           \* filterByPageRange: [startPage, hasCount, pageCount] of the last call
    filtered,          \* filterByPageRange: the returned FilterResult
    input,             \* the argument of a called pure function
    output,            \* the value that call returned
    origin,            \* insertAnchors: for each character of result its index in the
                       \* text argument, 0 for a character the function inserted
    entries,           \* history.svelte.ts: let entries
    localStorage,      \* history.svelte.ts: the value stored under STORAGE_KEY
    storageAvailable,  \* whether localStorage accepts calls in this session
    nextDocId,         \* the number the next document never converted before gets
    otherCalls         \* history calls made so far that did not add such a document

vars == <<doc, threads, lines, prevWasList, idx, result, pc,
          elements, charsPerPage, pages, currentPageStart, currentCharCount,
          pageNumber, i, request, filtered,
          input, output, origin, entries, localStorage, storageAvailable,
          nextDocId, otherCalls>>

transformVars == <<doc, threads, lines, prevWasList, idx, result>>
pageVars == <<elements, charsPerPage, pages, currentPageStart, currentCharCount,
              pageNumber, i, request, filtered>>
callVars == <<input, output, origin>>
historyVars == <<entries, localStorage, storageAvailable, nextDocId, otherCalls>>

-----------------------------------------------------------------------------
(* Bounds of the explored inputs *)

MaxDocLen == 4        \* characters of a document body, paragraph ends included
MaxThreads == 2       \* threads per call
MaxElements == 4      \* structural elements per estimatePages call
MaxChars == 2         \* characters per structural element (pagination)
MaxBudget == 2        \* charsPerPage values explored: 0..MaxBudget
MaxPageArg == 3       \* startPage / pageCount explored: -1..MaxPageArg

Alphabet == {"a", "b"}

-----------------------------------------------------------------------------
(* JavaScript string primitives *)

NL == "\n"

WhiteSpace == {" ", "\n", "\t"}

Min(a, b) == IF a <= b THEN a ELSE b

Max(a, b) == IF a >= b THEN a ELSE b

\* s.includes(t)
Includes(s, t) ==
    \E k \in 1..(Len(s) - Len(t) + 1) : SubSeq(s, k, k + Len(t) - 1) = t

\* s.indexOf(t), 1-based; 0 when t does not occur
IndexOf(s, t) ==
    IF Includes(s, t)
    THEN CHOOSE k \in 1..(Len(s) - Len(t) + 1) :
            /\ SubSeq(s, k, k + Len(t) - 1) = t
            /\ \A m \in 1..(k - 1) : SubSeq(s, m, m + Len(t) - 1) # t
    ELSE 0

\* number of (possibly overlapping) positions at which t occurs in s
CountOccurrences(s, t) ==
    Cardinality({k \in 1..(Len(s) - Len(t) + 1) : SubSeq(s, k, k + Len(t) - 1) = t})

\* s.startsWith(t)
StartsWith(s, t) == Len(t) <= Len(s) /\ SubSeq(s, 1, Len(t)) = t

RECURSIVE TrimEnd(_)
\* s.trimEnd()
TrimEnd(s) ==
    IF s # <<>> /\ s[Len(s)] \in WhiteSpace THEN TrimEnd(SubSeq(s, 1, Len(s) - 1)) ELSE s

RECURSIVE TrimStart(_)
TrimStart(s) ==
    IF s # <<>> /\ s[1] \in WhiteSpace THEN TrimStart(Tail(s)) ELSE s

\* s.trim()
Trim(s) == TrimEnd(TrimStart(s))

RECURSIVE Join(_, _)
\* parts.join(sep)
Join(parts, sep) ==
    IF parts = <<>> THEN <<>>
    ELSE IF Len(parts) = 1 THEN parts[1]
    ELSE parts[1] \o sep \o Join(Tail(parts), sep)

RECURSIVE Split(_, _)
\* s.split(ch) for a one-character separator
Split(s, ch) ==
    IF \E k \in 1..Len(s) : s[k] = ch
    THEN LET k == CHOOSE k \in 1..Len(s) : s[k] = ch /\ \A m \in 1..(k - 1) : s[m] # ch
         IN <<SubSeq(s, 1, k - 1)>> \o Split(SubSeq(s, k + 1, Len(s)), ch)
    ELSE <<s>>

RECURSIVE Repeat(_, _)
\* s.repeat(n)
Repeat(s, n) == IF n <= 0 THEN <<>> ELSE s \o Repeat(s, n - 1)

\* rawText.replace(/\n$/, '')
StripFinalNewline(s) ==
    IF s # <<>> /\ s[Len(s)] = NL THEN SubSeq(s, 1, Len(s) - 1) ELSE s

\* in a run of newlines every newline after the second is dropped
DroppedNewline(s, k) == k >= 3 /\ s[k] = NL /\ s[k - 1] = NL /\ s[k - 2] = NL

RECURSIVE CollapseBetween(_, _, _)
\* the characters of s at positions lo..hi that the replacement keeps
CollapseBetween(s, lo, hi) ==
    IF lo > hi THEN <<>>
    ELSE IF lo = hi THEN (IF DroppedNewline(s, lo) THEN <<>> ELSE <<s[lo]>>)
    ELSE LET mid == (lo + hi) \div 2
         IN CollapseBetween(s, lo, mid) \o CollapseBetween(s, mid + 1, hi)

\* result.replace(/\n{3,}/g, '\n\n')
CollapseNewlines(s) == CollapseBetween(s, 1, Len(s))

\* the characters of the class [.*+?^${}()|[\]\\]
RegExpSpecial == {".", "*", "+", "?", "^", "$", "{", "}", "(", ")", "|", "[", "]", "\\"}

RECURSIVE EscapeNothing(_)
\* variant: the quoted text is used as the pattern unescaped
EscapeNothing(t) == IF t = <<>> THEN <<>> ELSE <<t[1]>> \o EscapeNothing(Tail(t))

RECURSIVE EscapeRegExp(_)
\* quotedText.replace(/[.*+?^${}()|[\]\\]/g, '\\$&')
EscapeRegExp(t) ==
    IF t = <<>> THEN <<>>
    ELSE (IF t[1] \in RegExpSpecial THEN <<"\\", t[1]>> ELSE <<t[1]>>)
         \o EscapeRegExp(Tail(t))

RECURSIVE PatternAtoms(_)
\* new RegExp(pattern): of the pattern syntax an escaped character and the dot are
\* read as such, any other character stands for itself; every atom matches one
\* character
PatternAtoms(p) ==
    IF p = <<>> THEN <<>>
    ELSE IF p[1] = "\\" /\ Len(p) >= 2
         THEN <<[any |-> FALSE, ch |-> p[2]]>> \o PatternAtoms(SubSeq(p, 3, Len(p)))
    ELSE IF p[1] = "."
         THEN <<[any |-> TRUE, ch |-> "."]>> \o PatternAtoms(Tail(p))
    ELSE <<[any |-> FALSE, ch |-> p[1]]>> \o PatternAtoms(Tail(p))

\* the atoms match the characters of s from position k on
MatchesAt(s, k, atoms) ==
    /\ k + Len(atoms) - 1 <= Len(s)
    /\ \A j \in 1..Len(atoms) : atoms[j].any \/ atoms[j].ch = s[k + j - 1]

\* the position of the leftmost match of the pattern made from t in s, 0 for none
MatchIndex(s, t) ==
    LET atoms == PatternAtoms(EscapeRegExp(t))
        found == {k \in 1..Len(s) : MatchesAt(s, k, atoms)}
    IN IF found = {} THEN 0 ELSE CHOOSE k \in found : \A m \in found : k <= m

\* the replace() of insertAnchors: the callback rewrites only the leftmost match
\* and returns every later match as it is
ReplaceFirst(s, t, r) ==
    LET k == MatchIndex(s, t)
    IN IF k = 0 THEN s
       ELSE SubSeq(s, 1, k - 1) \o r \o SubSeq(s, k + Len(t), Len(s))

\* decimal digits of a number 0..99, as in `c${index + 1}`
Digits(n) ==
    LET d == <<"0", "1", "2", "3", "4", "5", "6", "7", "8", "9">>
    IN IF n < 10 THEN <<d[n + 1]>> ELSE <<d[(n \div 10) + 1], d[(n % 10) + 1]>>

AnchorIdOf(n) == <<"c">> \o Digits(n)

-----------------------------------------------------------------------------
(* transformer.ts: text rendering *)

\* A ParagraphElement is [textRun, pageBreak : BOOLEAN, content, url : string,
\* bold, italic : BOOLEAN]; url = <<>> stands for "no link".
\* A StructuralElement is [paragraph : BOOLEAN, elements : Seq(ParagraphElement),
\* namedStyleType : STRING, bullet : BOOLEAN, listId : STRING, nestingLevel : Nat].

\* variant: bold is wrapped first and italic second
ApplyTextStyleItalicOuter(text, style) ==
    IF style.url # <<>>
    THEN <<"[">> \o text \o <<"]", "(">> \o style.url \o <<")">>
    ELSE LET t1 == IF style.bold THEN <<"*", "*">> \o text \o <<"*", "*">> ELSE text
         IN IF style.italic THEN <<"_">> \o t1 \o <<"_">> ELSE t1

ApplyTextStyle(text, style) ==
    IF style.url # <<>>
    THEN <<"[">> \o text \o <<"]", "(">> \o style.url \o <<")">>
    ELSE LET t1 == IF style.italic THEN <<"_">> \o text \o <<"_">> ELSE text
         IN IF style.bold THEN <<"*", "*">> \o t1 \o <<"*", "*">> ELSE t1

RECURSIVE ExtractTextContent(_)
ExtractTextContent(els) ==
    IF els = <<>> THEN <<>>
    ELSE (IF ~els[1].textRun THEN <<>> ELSE ApplyTextStyle(els[1].content, els[1]))
         \o ExtractTextContent(Tail(els))

HeadingStyles == {"TITLE", "HEADING_1", "HEADING_2", "HEADING_3", "HEADING_4", "HEADING_5"}

\* HEADING_MAP, for the styles whose prefix is a non-empty (truthy) string
HEADING_MAP(styleType) ==
    CASE styleType = "TITLE"     -> <<"#", " ">>
      [] styleType = "HEADING_1" -> <<"#", "#", " ">>
      [] styleType = "HEADING_2" -> <<"#", "#", "#", " ">>
      [] styleType = "HEADING_3" -> <<"#", "#", "#", "#", " ">>
      [] styleType = "HEADING_4" -> <<"#", "#", "#", "#", "#", " ">>
      [] styleType = "HEADING_5" -> <<"#", "#", "#", "#", "#", "#", " ">>
      [] OTHER                   -> <<>>

\* variant: the glyph format is always read from the list's first level
GetListPrefixFirstLevelGlyph(paragraph, d) ==
    IF ~paragraph.bullet THEN <<>>
    ELSE LET nestingLevel == paragraph.nestingLevel
             padding == Repeat(<<" ", " ">>, nestingLevel)
             levels == IF paragraph.listId \in DOMAIN d.lists
                       THEN d.lists[paragraph.listId] ELSE <<>>
             glyphFormat == IF 1 \in DOMAIN levels THEN levels[1] ELSE <<>>
             isOrdered == /\ Includes(glyphFormat, <<"%">>)
                          /\ \/ Includes(glyphFormat, <<".">>)
                             \/ StartsWith(glyphFormat, <<"[">>)
         IN IF isOrdered THEN padding \o <<"1", ".", " ">> ELSE padding \o <<"-", " ">>

\* doc.lists maps a list id to the sequence of its levels' glyphFormat strings
GetListPrefix(paragraph, d) ==
    IF ~paragraph.bullet THEN <<>>
    ELSE LET nestingLevel == paragraph.nestingLevel
             padding == Repeat(<<" ", " ">>, nestingLevel)
             levels == IF paragraph.listId \in DOMAIN d.lists
                       THEN d.lists[paragraph.listId] ELSE <<>>
             glyphFormat == IF nestingLevel + 1 \in DOMAIN levels
                            THEN levels[nestingLevel + 1] ELSE <<>>
             isOrdered == /\ Includes(glyphFormat, <<"%">>)
                          /\ \/ Includes(glyphFormat, <<".">>)
                             \/ StartsWith(glyphFormat, <<"[">>)
         IN IF isOrdered THEN padding \o <<"1", ".", " ">> ELSE padding \o <<"-", " ">>

-----------------------------------------------------------------------------
(* transformer.ts: comment threads and anchors *)

\* A CommentThread is [id : Nat, anchorId, quotedText : string, resolved : BOOLEAN,
\* comments : Seq([authorName, authorEmail, content : string])].

AnchorLabel(thread) ==
    IF thread.resolved
    THEN thread.anchorId \o <<" ", "r", "e", "s", "o", "l", "v", "e", "d">>
    ELSE thread.anchorId

CommentHeader(thread, comment) ==
    <<">", " ", "[">> \o AnchorLabel(thread) \o <<"]", " ", "*", "*">>
      \o comment.authorName \o <<"*", "*", " ", "(">> \o comment.authorEmail \o <<")", ":">>

RECURSIVE PrefixLines(_)
PrefixLines(ls) ==
    IF ls = <<>> THEN <<>> ELSE <<(<<">", " ">> \o ls[1])>> \o PrefixLines(Tail(ls))

FormatComment(thread, comment) ==
    CommentHeader(thread, comment) \o <<NL>>
      \o Join(PrefixLines(Split(comment.content, NL)), <<NL>>)

RECURSIVE FormatComments(_, _)
FormatComments(thread, cs) ==
    IF cs = <<>> THEN <<>>
    ELSE <<FormatComment(thread, cs[1])>> \o FormatComments(thread, Tail(cs))

\* variant: successive comments are separated by an empty line
FormatCommentThreadBlankSeparator(thread) ==
    Join(FormatComments(thread, thread.comments), <<NL, NL>>)

FormatCommentThread(thread) ==
    Join(FormatComments(thread, thread.comments), <<NL, ">", NL>>)

RECURSIVE SelectByLen(_, _)
\* the members of ths whose quoted text has length n, in their order in ths
SelectByLen(ths, n) ==
    IF ths = <<>> THEN <<>>
    ELSE (IF Len(ths[1].quotedText) = n THEN <<ths[1]>> ELSE <<>>)
         \o SelectByLen(Tail(ths), n)

RECURSIVE SortFrom(_, _)
SortFrom(ths, n) ==
    IF n < 0 THEN <<>> ELSE SelectByLen(ths, n) \o SortFrom(ths, n - 1)

RECURSIVE MaxQuoteLength(_)
MaxQuoteLength(ths) ==
    IF ths = <<>> THEN 0 ELSE Max(Len(ths[1].quotedText), MaxQuoteLength(Tail(ths)))

\* [...threads].sort((a, b) => b.quotedText.length - a.quotedText.length):
\* longest quote first, equal lengths keep their order (Array.prototype.sort is stable)
SortedThreads(ths) == SortFrom(ths, MaxQuoteLength(ths))

AnchorMarker(thread) ==
    <<"[">> \o thread.quotedText \o <<"]", "^", "[">> \o thread.anchorId \o <<"]">>

RECURSIVE InsertEach(_, _)
InsertEach(text, sorted) ==
    IF sorted = <<>> THEN text
    ELSE IF sorted[1].quotedText = <<>> THEN InsertEach(text, Tail(sorted))
    ELSE InsertEach(ReplaceFirst(text, sorted[1].quotedText, AnchorMarker(sorted[1])),
                    Tail(sorted))

InsertAnchors(text, ths) == InsertEach(text, SortedThreads(ths))

-----------------------------------------------------------------------------
(* transformer.ts: transformToMarkdown *)

\* doc.body.content.some(el => el.paragraph?.paragraphStyle?.namedStyleType === 'TITLE')
HasTitleParagraph(d) ==
    \E k \in 1..Len(d.content) :
        d.content[k].paragraph /\ d.content[k].namedStyleType = "TITLE"

\* the lines pushed before the loop
TitleLines(d) ==
    IF ~HasTitleParagraph(d) THEN <<(<<"#", " ">> \o d.title), <<>>>> ELSE <<>>

\* textContent of a paragraph: rawText.replace(/\n$/, '')
TextContentOf(element) == StripFinalNewline(ExtractTextContent(element.elements))

\* variant: the filter without the test for an empty quoted text
ThreadMatchesAnyQuote(thread, textContent) ==
    Includes(textContent, thread.quotedText)

ThreadMatches(thread, textContent) ==
    thread.quotedText # <<>> /\ Includes(textContent, thread.quotedText)

RECURSIVE MatchingThreads(_, _)
\* threads.filter(thread => thread.quotedText && textContent.includes(thread.quotedText))
MatchingThreads(ths, textContent) ==
    IF ths = <<>> THEN <<>>
    ELSE (IF ThreadMatches(ths[1], textContent) THEN <<ths[1]>> ELSE <<>>)
         \o MatchingThreads(Tail(ths), textContent)

RECURSIVE FormatAll(_)
FormatAll(ths) ==
    IF ths = <<>> THEN <<>> ELSE <<FormatCommentThread(ths[1])>> \o FormatAll(Tail(ths))

\* the line of a paragraph with its heading/list prefix, before anchors are inserted
BuildLine(paragraph, d, textContent) ==
    IF paragraph.bullet THEN GetListPrefix(paragraph, d) \o textContent
    ELSE IF paragraph.namedStyleType = "SUBTITLE"
         THEN <<"_">> \o Trim(textContent) \o <<"_">>
    ELSE IF paragraph.namedStyleType \in HeadingStyles
         THEN HEADING_MAP(paragraph.namedStyleType) \o textContent
    ELSE textContent

\* variant: a blank line is pushed before every list item that follows a line
StartsListRunAtEveryItem(st, isList) ==
    /\ isList
    /\ Len(st.lines) > 0
    /\ st.lines[Len(st.lines)] # <<>>

\* a list starts after other content: isList && !prevWasList && lines.length > 0
\* && lastLine !== ''
StartsListRun(st, isList) ==
    /\ isList
    /\ ~st.prevWasList
    /\ Len(st.lines) > 0
    /\ st.lines[Len(st.lines)] # <<>>

\* one iteration of the for-of loop over doc.body.content:
\* st = [lines, prevWasList] before the iteration, the value is st after it
BlockStep(st, element, d, ths) ==
    IF ~element.paragraph THEN st
    ELSE
    LET isList == element.bullet
        rawText == ExtractTextContent(element.elements)
    IN IF Trim(rawText) = <<>>
       THEN [lines |-> IF st.prevWasList THEN st.lines ELSE Append(st.lines, <<>>),
             prevWasList |-> FALSE]
       ELSE
       LET textContent == StripFinalNewline(rawText)
           line0 == BuildLine(element, d, textContent)
           lines1 == IF StartsListRun(st, isList) THEN Append(st.lines, <<>>) ELSE st.lines
           matchingThreads == MatchingThreads(ths, textContent)
           line == IF Len(matchingThreads) > 0
                   THEN InsertAnchors(line0, matchingThreads)
                   ELSE line0
           lines2 == IF ~isList /\ st.prevWasList THEN Append(lines1, <<>>) ELSE lines1
           lines3 == Append(lines2, TrimEnd(line))
           quotes == IF Len(matchingThreads) > 0
                     THEN <<(<<>>)>> \o FormatAll(matchingThreads)
                     ELSE <<>>
           lines4 == IF ~isList
                     THEN Append(lines3 \o quotes, <<>>)
                     ELSE lines3 \o quotes
       IN [lines |-> lines4, prevWasList |-> isList]

\* variant: the post-pass without the replacement of newline runs
FinishLinesKeepsRuns(ls) == TrimEnd(Join(ls, <<NL>>)) \o <<NL>>

\* the post-pass: join, collapse runs of newlines, trim the end, add one newline
FinishLines(ls) == TrimEnd(CollapseNewlines(Join(ls, <<NL>>))) \o <<NL>>

RECURSIVE RunBlocks(_, _, _, _)
RunBlocks(st, content, d, ths) ==
    IF content = <<>> THEN st
    ELSE RunBlocks(BlockStep(st, content[1], d, ths), Tail(content), d, ths)

\* transformToMarkdown(doc, threads) as a function of its arguments
TransformToMarkdown(d, ths) ==
    FinishLines(RunBlocks([lines |-> TitleLines(d), prevWasList |-> FALSE],
                          d.content, d, ths).lines)

-----------------------------------------------------------------------------
(* pagination.ts: estimatePages *)

\* A PageBoundary is [pageNumber, startElementIndex, endElementIndex, charCount];
\* element indices are 0-based as in the code, so elements[k] is els[k + 1] here.

HasPageBreak(element) ==
    /\ element.paragraph
    /\ \E k \in 1..Len(element.elements) : element.elements[k].pageBreak

RECURSIVE SumContentLength(_)
SumContentLength(els) ==
    IF els = <<>> THEN 0
    ELSE (IF els[1].textRun THEN Len(els[1].content) ELSE 0) + SumContentLength(Tail(els))

GetElementCharCount(element) ==
    IF ~element.paragraph THEN 0 ELSE SumContentLength(element.elements)

PageBoundary(n, s, e, c) ==
    [pageNumber |-> n, startElementIndex |-> s, endElementIndex |-> e, charCount |-> c]

EmptyDocumentPages == <<PageBoundary(1, 0, 0, 0)>>

EstimateStart == [pages |-> <<>>, currentPageStart |-> 0, currentCharCount |-> 0,
                  pageNumber |-> 1]

\* variant: the next page starts at the page-break element itself
PageBreakStepKeepsBreak(st, k) ==
    LET closes == st.currentPageStart < k \/ st.currentCharCount > 0
    IN [pages |-> IF closes
                  THEN Append(st.pages, PageBoundary(st.pageNumber, st.currentPageStart,
                                                     k, st.currentCharCount))
                  ELSE st.pages,
        pageNumber |-> IF closes THEN st.pageNumber + 1 ELSE st.pageNumber,
        currentPageStart |-> k,
        currentCharCount |-> 0]

\* variant: a page is closed at every page break
PageBreakStepAlwaysCloses(st, k) ==
    [pages |-> Append(st.pages, PageBoundary(st.pageNumber, st.currentPageStart,
                                             k, st.currentCharCount)),
     pageNumber |-> st.pageNumber + 1,
     currentPageStart |-> k + 1,
     currentCharCount |-> 0]

\* loop iteration k on an element that has a page break
PageBreakStep(st, k) ==
    LET closes == st.currentPageStart < k \/ st.currentCharCount > 0
    IN [pages |-> IF closes
                  THEN Append(st.pages, PageBoundary(st.pageNumber, st.currentPageStart,
                                                     k, st.currentCharCount))
                  ELSE st.pages,
        pageNumber |-> IF closes THEN st.pageNumber + 1 ELSE st.pageNumber,
        currentPageStart |-> k + 1,
        currentCharCount |-> 0]

\* variant: after a budget split the next page starts one element too late
CountStepSkipsBlock(st, k, element, budget) ==
    LET charCount == GetElementCharCount(element)
        total == st.currentCharCount + charCount
    IN IF total > budget /\ k > st.currentPageStart
       THEN [pages |-> Append(st.pages, PageBoundary(st.pageNumber, st.currentPageStart,
                                                     k, total - charCount)),
             pageNumber |-> st.pageNumber + 1,
             currentPageStart |-> k + 1,
             currentCharCount |-> charCount]
       ELSE [st EXCEPT !.currentCharCount = total]

\* variant: the page is split as soon as the budget is reached (>= for >)
CountStepAtBudget(st, k, element, budget) ==
    LET charCount == GetElementCharCount(element)
        total == st.currentCharCount + charCount
    IN IF total >= budget /\ k > st.currentPageStart
       THEN [pages |-> Append(st.pages, PageBoundary(st.pageNumber, st.currentPageStart,
                                                     k, total - charCount)),
             pageNumber |-> st.pageNumber + 1,
             currentPageStart |-> k,
             currentCharCount |-> charCount]
       ELSE [st EXCEPT !.currentCharCount = total]

\* variant: after a budget split the new page carries the whole running total
CountStepCarriesTotal(st, k, element, budget) ==
    LET charCount == GetElementCharCount(element)
        total == st.currentCharCount + charCount
    IN IF total > budget /\ k > st.currentPageStart
       THEN [pages |-> Append(st.pages, PageBoundary(st.pageNumber, st.currentPageStart,
                                                     k, total - charCount)),
             pageNumber |-> st.pageNumber + 1,
             currentPageStart |-> k,
             currentCharCount |-> total]
       ELSE [st EXCEPT !.currentCharCount = total]

\* loop iteration k on an element without a page break
CountStep(st, k, element, budget) ==
    LET charCount == GetElementCharCount(element)
        total == st.currentCharCount + charCount
    IN IF total > budget /\ k > st.currentPageStart
       THEN [pages |-> Append(st.pages, PageBoundary(st.pageNumber, st.currentPageStart,
                                                     k, total - charCount)),
             pageNumber |-> st.pageNumber + 1,
             currentPageStart |-> k,
             currentCharCount |-> charCount]
       ELSE [st EXCEPT !.currentCharCount = total]

\* "Close final page"
ClosePages(st, n) ==
    IF st.currentPageStart <= n - 1 \/ Len(st.pages) = 0
    THEN Append(st.pages, PageBoundary(st.pageNumber, st.currentPageStart, n,
                                       st.currentCharCount))
    ELSE st.pages

RECURSIVE EstimateLoop(_, _, _, _)
EstimateLoop(st, k, els, budget) ==
    IF k >= Len(els) THEN st
    ELSE EstimateLoop(IF HasPageBreak(els[k + 1])
                      THEN PageBreakStep(st, k)
                      ELSE CountStep(st, k, els[k + 1], budget),
                      k + 1, els, budget)

\* estimatePages(elements, charsPerPage) as a function of its arguments
EstimatePages(els, budget) ==
    IF Len(els) = 0 THEN EmptyDocumentPages
    ELSE ClosePages(EstimateLoop(EstimateStart, 0, els, budget), Len(els))

-----------------------------------------------------------------------------
(* pagination.ts: filterByPageRange *)

\* variant: startPage is clamped from below only
ClampedStartNoUpper(startPage, totalPages) == Max(1, startPage)

ClampedStart(startPage, totalPages) == Min(Max(1, startPage), totalPages)

EndPage(clampedStart, hasCount, pageCount, totalPages) ==
    IF ~hasCount THEN totalPages ELSE Min(clampedStart + pageCount - 1, totalPages)

RECURSIVE SelectPages(_, _, _)
\* pages.filter(p => p.pageNumber >= clampedStart && p.pageNumber <= endPage)
SelectPages(ps, clampedStart, endPage) ==
    IF ps = <<>> THEN <<>>
    ELSE (IF ps[1].pageNumber >= clampedStart /\ ps[1].pageNumber <= endPage
          THEN <<ps[1]>> ELSE <<>>)
         \o SelectPages(Tail(ps), clampedStart, endPage)

RECURSIVE IndexRangeInclusive(_, _)
\* variant: the loop runs to the end index inclusive (<= for <)
IndexRangeInclusive(s, e) == IF s > e THEN <<>> ELSE <<s>> \o IndexRangeInclusive(s + 1, e)

RECURSIVE IndexRange(_, _)
\* the indices pushed by: for (let i = start; i < end; i++)
IndexRange(s, e) == IF s >= e THEN <<>> ELSE <<s>> \o IndexRange(s + 1, e)

RECURSIVE GatherElements(_)
\* filteredElements, each element named by its index in the input
GatherElements(selected) ==
    IF selected = <<>> THEN <<>>
    ELSE IndexRange(selected[1].startElementIndex, selected[1].endElementIndex)
         \o GatherElements(Tail(selected))

\* filterByPageRange(elements, startPage, pageCount, charsPerPage); hasCount = FALSE
\* stands for pageCount === undefined
FilterByPageRange(els, startPage, hasCount, pageCount, budget) ==
    LET ps == EstimatePages(els, budget)
        totalPages == Len(ps)
        clampedStart == ClampedStart(startPage, totalPages)
        endPage == EndPage(clampedStart, hasCount, pageCount, totalPages)
    IN [elements |-> GatherElements(SelectPages(ps, clampedStart, endPage)),
        totalPages |-> totalPages,
        startPage |-> clampedStart,
        endPage |-> endPage]

-----------------------------------------------------------------------------
(* Input values *)

RECURSIVE StringsUpTo(_, _)
\* all strings over the character set cs of length 0..n
StringsUpTo(cs, n) ==
    IF n = 0 THEN {<<>>}
    ELSE LET shorter == StringsUpTo(cs, n - 1)
         IN shorter \cup {Append(s, c) : s \in shorter, c \in cs}

RECURSIVE SeqsUpTo(_, _)
\* all sequences over the set S of length 0..n
SeqsUpTo(S, n) ==
    IF n = 0 THEN {<<>>}
    ELSE LET shorter == SeqsUpTo(S, n - 1)
         IN shorter \cup {Append(s, x) : s \in shorter, x \in S}

TextRun(content) ==
    [textRun |-> TRUE, pageBreak |-> FALSE, content |-> content, url |-> <<>>,
     bold |-> FALSE, italic |-> FALSE]

PageBreakElement ==
    [textRun |-> FALSE, pageBreak |-> TRUE, content |-> <<>>, url |-> <<>>,
     bold |-> FALSE, italic |-> FALSE]

Paragraph(els, styleType) ==
    [paragraph |-> TRUE, elements |-> els, namedStyleType |-> styleType,
     bullet |-> FALSE, listId |-> "", nestingLevel |-> 0]

\* a structural element that is no paragraph (a table, a section break)
NonParagraph ==
    [paragraph |-> FALSE, elements |-> <<>>, namedStyleType |-> "",
     bullet |-> FALSE, listId |-> "", nestingLevel |-> 0]

\* a body paragraph as the Docs API delivers it: one text run ending in a newline
TextParagraph(text) == Paragraph(<<TextRun(text \o <<NL>>)>>, "NORMAL_TEXT")

OneComment == <<[authorName |-> <<"A">>, authorEmail |-> <<"e">>, content |-> <<"x">>]>>

Thread(n, anchor, quoted) ==
    [id |-> n, anchorId |-> AnchorIdOf(anchor), quotedText |-> quoted,
     resolved |-> FALSE, comments |-> OneComment]

RECURSIVE TextParagraphs(_)
TextParagraphs(texts) ==
    IF texts = <<>> THEN <<>>
    ELSE <<TextParagraph(texts[1])>> \o TextParagraphs(Tail(texts))

\* the document whose body text is `body`: every newline ends a paragraph, so
\* <<"a", NL, NL, "b">> is the paragraphs "a", "" and "b"
DocumentOf(body) ==
    [title |-> <<"T">>,
     content |-> IF body = <<>> THEN <<>> ELSE TextParagraphs(Split(body, NL)),
     lists |-> <<>>]

Documents == {DocumentOf(body) : body \in StringsUpTo(Alphabet \cup {NL}, MaxDocLen)}

\* quoted texts: none, one character, two characters in either order
Quotes == {<<>>, <<"a">>, <<"b">>, <<"a", "b">>, <<"b", "a">>}

\* thread lists of length 0..MaxThreads; the k-th thread of a list carries anchor id c<k>,
\* as convertDriveComments and filterAndRenumberThreads produce them
ThreadLists ==
    {[k \in 1..Len(qs) |-> Thread(k, k, qs[k])] : qs \in SeqsUpTo(Quotes, MaxThreads)}

\* pagination inputs: paragraphs of 1..MaxChars characters, a paragraph with a
\* character and a page break, and a non-paragraph element (which counts no characters)
PageBlocks ==
    {Paragraph(<<TextRun(Repeat(<<"a">>, n))>>, "NORMAL_TEXT") : n \in 1..MaxChars}
    \cup {Paragraph(<<TextRun(<<"a">>), PageBreakElement>>, "NORMAL_TEXT"),
          NonParagraph}

NoDocument == [title |-> <<>>, content |-> <<>>, lists |-> <<>>]

NoRequest == [startPage |-> 0, hasCount |-> FALSE, pageCount |-> 0]

NoFilterResult == [elements |-> <<>>, totalPages |-> 0, startPage |-> 0, endPage |-> 0]

-----------------------------------------------------------------------------
(* transformToMarkdown as a state machine: one step per loop iteration *)

TransformIdle ==
    /\ lines = <<>>
    /\ prevWasList = FALSE
    /\ idx = 0
    /\ result = <<>>

\* no pure function has been called
CallIdle ==
    /\ input = <<>>
    /\ output = <<>>
    /\ origin = <<>>

\* the history store is not in use
HistoryIdle ==
    /\ entries = <<>>
    /\ localStorage = <<>>
    /\ storageAvailable = FALSE
    /\ nextDocId = 1
    /\ otherCalls = 0

PagesIdle ==
    /\ pages = <<>>
    /\ currentPageStart = 0
    /\ currentCharCount = 0
    /\ pageNumber = 1
    /\ i = 0
    /\ request = NoRequest
    /\ filtered = NoFilterResult

Init ==
    /\ doc \in Documents
    /\ threads \in ThreadLists
    /\ pc = "start"
    /\ TransformIdle
    /\ elements = <<>>
    /\ charsPerPage = 0
    /\ PagesIdle
    /\ CallIdle
    /\ HistoryIdle

\* lines 149-161: the synthetic title and the initial loop state
Begin ==
    /\ pc = "start"
    /\ lines' = TitleLines(doc)
    /\ prevWasList' = FALSE
    /\ idx' = 0
    /\ pc' = "loop"
    /\ UNCHANGED <<doc, threads, result>>
    /\ UNCHANGED <<pageVars, callVars, historyVars>>

\* lines 163-244: one iteration of the loop over doc.body.content
Block ==
    /\ pc = "loop"
    /\ idx < Len(doc.content)
    /\ LET st == BlockStep([lines |-> lines, prevWasList |-> prevWasList],
                           doc.content[idx + 1], doc, threads)
       IN /\ lines' = st.lines
          /\ prevWasList' = st.prevWasList
    /\ idx' = idx + 1
    /\ UNCHANGED <<doc, threads, result, pc>>
    /\ UNCHANGED <<pageVars, callVars, historyVars>>

\* lines 246-251: the post-pass and the return
Finish ==
    /\ pc = "loop"
    /\ idx = Len(doc.content)
    /\ result' = FinishLines(lines)
    /\ pc' = "done"
    /\ UNCHANGED <<doc, threads, lines, prevWasList, idx>>
    /\ UNCHANGED <<pageVars, callVars, historyVars>>

Next == Begin \/ Block \/ Finish

Spec == Init /\ [][Next]_vars

-----------------------------------------------------------------------------
(* estimatePages as a state machine, followed by a call of filterByPageRange *)

InitPages ==
    /\ elements \in SeqsUpTo(PageBlocks, MaxElements)
    /\ charsPerPage \in 0..MaxBudget
    /\ pc = "estimate"
    /\ PagesIdle
    /\ doc = NoDocument
    /\ threads = <<>>
    /\ TransformIdle
    /\ CallIdle
    /\ HistoryIdle

EstimateState ==
    [pages |-> pages, currentPageStart |-> currentPageStart,
     currentCharCount |-> currentCharCount, pageNumber |-> pageNumber]

SetEstimateState(st) ==
    /\ pages' = st.pages
    /\ currentPageStart' = st.currentPageStart
    /\ currentCharCount' = st.currentCharCount
    /\ pageNumber' = st.pageNumber

\* lines 71-73: the early return for an empty input
EstimateEmpty ==
    /\ pc = "estimate"
    /\ Len(elements) = 0
    /\ pages' = EmptyDocumentPages
    /\ pc' = "estimated"
    /\ UNCHANGED <<elements, charsPerPage, currentPageStart, currentCharCount,
                   pageNumber, i, request, filtered>>
    /\ UNCHANGED <<transformVars, callVars, historyVars>>

\* lines 84-98: a loop iteration on an element with a hard page break
EstimatePageBreak ==
    /\ pc = "estimate"
    /\ i < Len(elements)
    /\ HasPageBreak(elements[i + 1])
    /\ SetEstimateState(PageBreakStep(EstimateState, i))
    /\ i' = i + 1
    /\ UNCHANGED <<elements, charsPerPage, request, filtered, pc>>
    /\ UNCHANGED <<transformVars, callVars, historyVars>>

\* lines 100-116: a loop iteration on any other element
EstimateCount ==
    /\ pc = "estimate"
    /\ i < Len(elements)
    /\ ~HasPageBreak(elements[i + 1])
    /\ SetEstimateState(CountStep(EstimateState, i, elements[i + 1], charsPerPage))
    /\ i' = i + 1
    /\ UNCHANGED <<elements, charsPerPage, request, filtered, pc>>
    /\ UNCHANGED <<transformVars, callVars, historyVars>>

\* lines 119-129: the final page and the return
EstimateClose ==
    /\ pc = "estimate"
    /\ Len(elements) > 0
    /\ i = Len(elements)
    /\ pages' = ClosePages(EstimateState, Len(elements))
    /\ pc' = "estimated"
    /\ UNCHANGED <<elements, charsPerPage, currentPageStart, currentCharCount,
                   pageNumber, i, request, filtered>>
    /\ UNCHANGED <<transformVars, callVars, historyVars>>

PageArgs == (0 - 1)..MaxPageArg

\* filterByPageRange(elements, startPage, pageCount?, charsPerPage)
FilterCall ==
    /\ pc = "estimated"
    /\ \E startPage \in PageArgs, hasCount \in BOOLEAN, pageCount \in PageArgs :
          /\ hasCount \/ pageCount = 0
          /\ request' = [startPage |-> startPage, hasCount |-> hasCount,
                         pageCount |-> pageCount]
          /\ filtered' = FilterByPageRange(elements, startPage, hasCount, pageCount,
                                           charsPerPage)
    /\ pc' = "filtered"
    /\ UNCHANGED <<elements, charsPerPage, pages, currentPageStart, currentCharCount,
                   pageNumber, i>>
    /\ UNCHANGED <<transformVars, callVars, historyVars>>

NextPages ==
    EstimateEmpty \/ EstimatePageBreak \/ EstimateCount \/ EstimateClose \/ FilterCall

SpecPages == InitPages /\ [][NextPages]_vars

-----------------------------------------------------------------------------
(* Properties of transformToMarkdown *)

Done == pc = "done"

ThreadSet == {threads[k] : k \in 1..Len(threads)}

\* the paragraphs whose text the loop renders (0-based block indices)
RenderedBlocks ==
    {k \in 0..(Len(doc.content) - 1) :
        /\ doc.content[k + 1].paragraph
        /\ Trim(ExtractTextContent(doc.content[k + 1].elements)) # <<>>}

\* the rendered blocks whose text contains the non-empty quoted text of thread t
BlocksQuoting(t) ==
    {k \in RenderedBlocks :
        /\ t.quotedText # <<>>
        /\ Includes(TextContentOf(doc.content[k + 1]), t.quotedText)}

FirstBlockQuoting(t) == CHOOSE k \in BlocksQuoting(t) : \A m \in BlocksQuoting(t) : k <= m

RECURSIVE SumOver(_, _)
SumOver(f, S) ==
    IF S = {} THEN 0 ELSE LET x == CHOOSE x \in S : TRUE IN f[x] + SumOver(f, S \ {x})

\* how often the quoted text of t occurs in the rendered text of the document
OccurrencesInDocument(t) ==
    SumOver([k \in RenderedBlocks |->
                CountOccurrences(TextContentOf(doc.content[k + 1]), t.quotedText)],
            RenderedBlocks)

\* the end of an anchor marker of thread t: ]^[anchorId]
MarkerTail(t) == <<"]", "^", "[">> \o t.anchorId \o <<"]">>

\* the start of a blockquote header of thread t: > [label] **
HeaderHead(t) == <<">", " ", "[">> \o AnchorLabel(t) \o <<"]", " ", "*", "*">>

\* the anchor marker of quoted text q with anchor number n
NumberedMarker(q, n) == <<"[">> \o q \o <<"]", "^", "[">> \o AnchorIdOf(n) \o <<"]">>

RemoveAt(s, k) == SubSeq(s, 1, k - 1) \o SubSeq(s, k + 1, Len(s))

\* C1: every thread with non-empty quoted text has at most one anchor marker
\* ]^[anchorId] and at most one blockquote in the output, also when its quoted
\* text occurs in two or more blocks.
C1_AnchoredAtMostOnce ==
    Done =>
        \A t \in ThreadSet :
            t.quotedText # <<>> =>
                /\ CountOccurrences(result, MarkerTail(t)) <= 1
                /\ CountOccurrences(result, HeaderHead(t)) <= 1

\* C2: anchor numbers follow the document order of first match: a thread whose
\* quoted text first occurs in an earlier block than another thread's carries the
\* lower anchor number in the output.
C2_NumberedByDocumentOrder ==
    Done =>
        \A ta, tb \in ThreadSet :
            (/\ BlocksQuoting(ta) # {}
             /\ BlocksQuoting(tb) # {}
             /\ FirstBlockQuoting(ta) < FirstBlockQuoting(tb))
            => \E na, nb \in 1..Len(threads) :
                  /\ na < nb
                  /\ Includes(result, NumberedMarker(ta.quotedText, na))
                  /\ Includes(result, NumberedMarker(tb.quotedText, nb))

\* no other thread quotes the same text as t, a part of it or a text around it
QuoteStandsApart(t) ==
    \A u \in ThreadSet :
        (u.id # t.id /\ u.quotedText # <<>>) =>
            /\ ~Includes(t.quotedText, u.quotedText)
            /\ ~Includes(u.quotedText, t.quotedText)

\* C3: a thread whose non-empty quoted text occurs exactly once in the document
\* gets exactly one anchor marker [quoted text]^[anchorId] and exactly one
\* blockquote after it, also when other threads match the same block. Stated for
\* the threads whose quoted text neither contains nor lies within another
\* thread's, which leaves out nested markers.
C3_ExactlyOneMarkerAndBlockquote ==
    Done =>
        \A t \in ThreadSet :
            (t.quotedText # <<>> /\ OccurrencesInDocument(t) = 1 /\ QuoteStandsApart(t)) =>
                /\ CountOccurrences(result, AnchorMarker(t)) = 1
                /\ CountOccurrences(result, HeaderHead(t)) = 1
                /\ IndexOf(result, AnchorMarker(t)) < IndexOf(result, HeaderHead(t))

\* a thread that no rendered block quotes
Unquoted(t) == BlocksQuoting(t) = {}

\* C4: a thread whose quoted text is empty or occurs in no block contributes
\* nothing: the output equals the output computed without that thread, and with
\* no threads at all the output has no anchor marker and no blockquote line.
C4_UnmatchedThreadContributesNothing ==
    Done =>
        /\ \A k \in 1..Len(threads) :
              Unquoted(threads[k]) => result = TransformToMarkdown(doc, RemoveAt(threads, k))
        /\ threads = <<>> =>
              /\ ~Includes(result, <<"]", "^", "[">>)
              /\ ~Includes(result, <<NL, ">">>)

\* C4 witness: a finished run in which one thread's non-empty quoted text occurs in
\* no block while another thread is anchored
C4_Witness ==
    /\ Done
    /\ \E j, k \in 1..Len(threads) :
          /\ threads[j].quotedText # <<>>
          /\ Unquoted(threads[j])
          /\ BlocksQuoting(threads[k]) # {}
          /\ Includes(result, AnchorMarker(threads[k]))

-----------------------------------------------------------------------------
(* Properties of estimatePages *)

Estimated == pc = "estimated"

PageSet == {pages[k] : k \in 1..Len(pages)}

BlockIndices == 0..(Len(elements) - 1)

BreakIndices == {k \in BlockIndices : HasPageBreak(elements[k + 1])}

InPage(k, p) == p.startElementIndex <= k /\ k < p.endElementIndex

\* the number of pages whose range holds block index k
PagesHolding(k) == Cardinality({n \in 1..Len(pages) : InPage(k, pages[n])})

\* the ranges are well formed, in increasing order and pairwise disjoint
RangesOrdered ==
    /\ \A n \in 1..Len(pages) : pages[n].startElementIndex <= pages[n].endElementIndex
    /\ \A n \in 1..(Len(pages) - 1) :
          pages[n].endElementIndex <= pages[n + 1].startElementIndex

\* C5 as stated: the ranges are increasing and disjoint and every block index
\* 0..n-1 of the input lies in exactly one page's range.
C5_CoversEveryBlockOnce ==
    Estimated => (RangesOrdered /\ \A k \in BlockIndices : PagesHolding(k) = 1)

\* C5 amended: the ranges are increasing and disjoint, every block index without a
\* hard page break lies in exactly one page's range, and a block with a hard page
\* break lies in none.
C5_CoversNonBreakBlocksOnce ==
    Estimated =>
        /\ RangesOrdered
        /\ \A k \in BlockIndices \ BreakIndices : PagesHolding(k) = 1
        /\ \A k \in BreakIndices : PagesHolding(k) = 0

\* C5 witness: a finished estimate of an input with a page break between two pages
C5_Witness ==
    /\ Estimated
    /\ Len(pages) >= 2
    /\ \E k \in BreakIndices : \E m, n \in BlockIndices \ BreakIndices : m < k /\ k < n

\* the sum of the character counts of the blocks s..e-1
RECURSIVE CharsOfRange(_, _)
CharsOfRange(s, e) ==
    IF s >= e THEN 0 ELSE GetElementCharCount(elements[s + 1]) + CharsOfRange(s + 1, e)

\* a loop iteration on a block without page break closes a page before that block
\* exactly when the running total including the block exceeds the budget and the
\* block is not the first of the current page
SplitRule ==
    (pc = "estimate" /\ i < Len(elements) /\ ~HasPageBreak(elements[i + 1])) =>
        ((/\ Len(pages') = Len(pages) + 1
          /\ pages'[Len(pages')].endElementIndex = i
          /\ currentPageStart' = i)
         <=> (/\ currentCharCount + GetElementCharCount(elements[i + 1]) > charsPerPage
              /\ i > currentPageStart))

SplitConsequences ==
    Estimated =>
        /\ \A k \in BlockIndices : PagesHolding(k) <= 1
        /\ \A p \in PageSet :
              p.endElementIndex - p.startElementIndex >= 2 =>
                  /\ p.charCount <= charsPerPage
                  /\ CharsOfRange(p.startElementIndex, p.endElementIndex) <= charsPerPage
        /\ \A k \in BlockIndices \ BreakIndices :
              GetElementCharCount(elements[k + 1]) > charsPerPage =>
                  \E p \in PageSet :
                      p.startElementIndex = k /\ p.endElementIndex = k + 1

\* C6: a page is closed before a non-break block exactly when the running total
\* including that block is strictly over the budget and the block is not the first
\* of its page; so no block is in two pages, a block over the budget alone is whole
\* on a page of its own, and a page of two or more blocks is within the budget.
C6_SplitsBeforeOverBudgetBlock == [][SplitRule]_vars /\ []SplitConsequences

\* C6 witness: a finished estimate with a page of two blocks that carry text and a
\* page made of a single block that exceeds the budget
C6_Witness ==
    /\ Estimated
    /\ \E p, q \in PageSet :
          /\ p.endElementIndex - p.startElementIndex >= 2
          /\ p.charCount >= 1
          /\ q.endElementIndex - q.startElementIndex = 1
          /\ q.charCount > charsPerPage

\* C7: a block with a hard page break lies in no page's range and no range spans
\* across it: every page lies entirely before it or entirely after it.
C7_PageBreakSeparatesPages ==
    Estimated =>
        \A k \in BreakIndices :
            \A p \in PageSet : p.endElementIndex <= k \/ p.startElementIndex > k

\* C7 witness: a page break reached while the current page is under the budget,
\* with a page before it and a page after it
C7_Witness ==
    /\ Estimated
    /\ \E k \in BreakIndices :
          \E p, q \in PageSet :
              /\ p.endElementIndex = k
              /\ p.charCount > 0
              /\ p.charCount < charsPerPage
              /\ q.startElementIndex = k + 1
              /\ q.endElementIndex > k + 1

-----------------------------------------------------------------------------
(* Properties of filterByPageRange *)

Filtered == pc = "filtered"

RECURSIVE RangesOfPages(_, _)
\* the block indices of the pages numbered from..to, in page order
RangesOfPages(from, to) ==
    IF from > to THEN <<>>
    ELSE IndexRange(pages[from].startElementIndex, pages[from].endElementIndex)
         \o RangesOfPages(from + 1, to)

C9_ClampsEveryArgument ==
    Filtered =>
        /\ 1 <= filtered.startPage
        /\ filtered.startPage <= filtered.endPage
        /\ filtered.endPage <= filtered.totalPages
        /\ \E n \in 1..Len(pages) :
              \E m \in n..Len(pages) : filtered.elements = RangesOfPages(n, m)

StrictlyIncreasing(s) == \A m, n \in 1..Len(s) : m < n => s[m] < s[n]

\* C10: the returned blocks are the concatenation, in page order, of the ranges of
\* the pages startPage..endPage: a subsequence of the input with no block repeated
\* and none reordered.
C10_ConcatenationOfSelectedPages ==
    Filtered =>
        /\ filtered.elements = RangesOfPages(filtered.startPage, filtered.endPage)
        /\ StrictlyIncreasing(filtered.elements)
        /\ \A n \in 1..Len(filtered.elements) : filtered.elements[n] \in BlockIndices

\* C10 witness: a call that selects two pages out of at least three, each holding
\* blocks, and leaves the first page out
C10_Witness ==
    /\ Filtered
    /\ Len(pages) >= 3
    /\ filtered.startPage = 2
    /\ filtered.endPage = 3
    /\ Len(filtered.elements) >= 3

-----------------------------------------------------------------------------
(* Round trip: filterByPageRange(content, 1) followed by transformToMarkdown *)

MaxRoundTripBlocks == 3   \* blocks of a round-trip document

\* a paragraph that holds a hard page break after its text
BreakParagraph ==
    Paragraph(<<TextRun(<<"b">>), PageBreakElement, TextRun(<<NL>>)>>, "NORMAL_TEXT")

RoundTripBlocks ==
    {TextParagraph(<<"a">>), TextParagraph(<<>>), BreakParagraph, NonParagraph}

RoundTripDocuments ==
    {[title |-> <<"T">>, content |-> c, lists |-> <<>>] :
        c \in SeqsUpTo(RoundTripBlocks, MaxRoundTripBlocks)}

RoundTripThreads == {<<>>, <<Thread(1, 1, <<"a">>)>>}

RECURSIVE ElementsAt(_, _)
\* the elements named by a sequence of 0-based indices
ElementsAt(els, indices) ==
    IF indices = <<>> THEN <<>>
    ELSE <<els[indices[1] + 1]>> \o ElementsAt(els, Tail(indices))

\* the document with its body content replaced by the filtered blocks
FilteredDocument(d, f) == [d EXCEPT !.content = ElementsAt(d.content, f.elements)]

InitRoundTrip ==
    /\ doc \in RoundTripDocuments
    /\ threads \in RoundTripThreads
    /\ elements = doc.content
    /\ charsPerPage \in 0..MaxBudget
    /\ pc = "roundtrip"
    /\ TransformIdle
    /\ PagesIdle
    /\ CallIdle
    /\ HistoryIdle

\* filterByPageRange(doc.body.content, 1, undefined, charsPerPage)
RoundTripFilter ==
    /\ pc = "roundtrip"
    /\ pages' = EstimatePages(elements, charsPerPage)
    /\ request' = [startPage |-> 1, hasCount |-> FALSE, pageCount |-> 0]
    /\ filtered' = FilterByPageRange(elements, 1, FALSE, 0, charsPerPage)
    /\ pc' = "selected"
    /\ UNCHANGED <<elements, charsPerPage, currentPageStart, currentCharCount,
                   pageNumber, i>>
    /\ UNCHANGED <<transformVars, callVars, historyVars>>

\* transformToMarkdown on the document narrowed to the filtered blocks
RoundTripTransform ==
    /\ pc = "selected"
    /\ result' = TransformToMarkdown(FilteredDocument(doc, filtered), threads)
    /\ pc' = "returned"
    /\ UNCHANGED <<doc, threads, lines, prevWasList, idx>>
    /\ UNCHANGED <<pageVars, callVars, historyVars>>

NextRoundTrip == RoundTripFilter \/ RoundTripTransform

SpecRoundTrip == InitRoundTrip /\ [][NextRoundTrip]_vars

\* C11: for a document that estimatePages puts on a single page, the filter with
\* startPage = 1 and no pageCount returns every block in order, and the markdown
\* of the filtered blocks equals the markdown of the unfiltered document.
C11_SinglePageRoundTrip ==
    (pc = "returned" /\ filtered.totalPages = 1) =>
        /\ filtered.elements = IndexRange(0, Len(doc.content))
        /\ result = TransformToMarkdown(doc, threads)

-----------------------------------------------------------------------------
(* pagination.ts: filterAndRenumberThreads *)

MaxRenumberLen == 3   \* characters of the body text the threads are filtered against

RECURSIVE RawTextOf(_)
\* el.paragraph.elements.map(pe => pe.textRun?.content || '').join('')
RawTextOf(pes) ==
    IF pes = <<>> THEN <<>>
    ELSE (IF pes[1].textRun THEN pes[1].content ELSE <<>>) \o RawTextOf(Tail(pes))

RECURSIVE ExtractAllText(_)
ExtractAllText(els) ==
    IF els = <<>> THEN <<>>
    ELSE (IF ~els[1].paragraph THEN <<>> ELSE RawTextOf(els[1].elements))
         \o ExtractAllText(Tail(els))

RECURSIVE MatchingInText(_, _)
\* threads.filter(thread => thread.quotedText && fullText.includes(thread.quotedText))
MatchingInText(ths, fullText) ==
    IF ths = <<>> THEN <<>>
    ELSE (IF ths[1].quotedText # <<>> /\ Includes(fullText, ths[1].quotedText)
          THEN <<ths[1]>> ELSE <<>>)
         \o MatchingInText(Tail(ths), fullText)

RECURSIVE RenumberFrom(_, _)
\* matching.map((thread, index) => ({...thread, anchorId: `c${index + 1}`})),
\* from the 0-based index on
RenumberFrom(matching, index) ==
    IF matching = <<>> THEN <<>>
    ELSE <<[matching[1] EXCEPT !.anchorId = AnchorIdOf(index + 1)]>>
         \o RenumberFrom(Tail(matching), index + 1)

\* variant: the threads are numbered before they are filtered
FilterAndRenumberThreadsNumbersFirst(ths, els) ==
    MatchingInText(RenumberFrom(ths, 0), ExtractAllText(els))

FilterAndRenumberThreads(ths, els) ==
    RenumberFrom(MatchingInText(ths, ExtractAllText(els)), 0)

\* quoted texts: none, within a paragraph, and across a paragraph end
RenumberQuotes == {<<>>, <<"a">>, <<"a", "b">>, <<"a", NL, "b">>}

\* anchor numbers the incoming threads may carry
IncomingAnchors == {1, 7}

RenumberThreadLists ==
    {[k \in 1..Len(ts) |-> Thread(k, ts[k][1], ts[k][2])] :
        ts \in SeqsUpTo(IncomingAnchors \X RenumberQuotes, MaxThreads)}

RenumberElements ==
    {DocumentOf(body).content : body \in StringsUpTo(Alphabet \cup {NL}, MaxRenumberLen)}

InitThreads ==
    /\ threads \in RenumberThreadLists
    /\ elements \in RenumberElements
    /\ pc = "threads"
    /\ input = <<>>
    /\ output = <<>>
    /\ origin = <<>>
    /\ doc = NoDocument
    /\ TransformIdle
    /\ charsPerPage = 0
    /\ PagesIdle
    /\ HistoryIdle

\* filterAndRenumberThreads(threads, elements)
FilterThreadsCall ==
    /\ pc = "threads"
    /\ output' = FilterAndRenumberThreads(threads, elements)
    /\ pc' = "renumbered"
    /\ UNCHANGED <<input, origin, transformVars, pageVars, historyVars>>

NextThreads == FilterThreadsCall

SpecThreads == InitThreads /\ [][NextThreads]_vars

\* the positions of the input threads that the given blocks quote
KeptPositions ==
    {k \in 1..Len(threads) :
        /\ threads[k].quotedText # <<>>
        /\ Includes(ExtractAllText(elements), threads[k].quotedText)}

\* the n-th smallest member of a set of positions
NthOf(S, n) == CHOOSE k \in S : Cardinality({j \in S : j <= k}) = n

\* C12: filterAndRenumberThreads returns exactly the threads whose quoted text is
\* non-empty and a substring of the concatenated text of the blocks, in their
\* original order, and the i-th returned thread has anchorId c<i> whatever anchor
\* ids came in.
C12_KeepsQuotedThreadsRenumbered ==
    pc = "renumbered" =>
        /\ Len(output) = Cardinality(KeptPositions)
        /\ \A n \in 1..Len(output) :
              /\ output[n].anchorId = AnchorIdOf(n)
              /\ output[n] = [threads[NthOf(KeptPositions, n)] EXCEPT
                                 !.anchorId = AnchorIdOf(n)]

\* C12 witness: the first thread's non-empty quoted text is not in the blocks, the
\* second thread is kept and arrives with an anchor id other than c1
C12_Witness ==
    /\ pc = "renumbered"
    /\ Len(threads) = 2
    /\ threads[1].quotedText # <<>>
    /\ KeptPositions = {2}
    /\ threads[2].anchorId # AnchorIdOf(1)
    /\ Len(output) = 1
    /\ output[1].anchorId = AnchorIdOf(1)

-----------------------------------------------------------------------------
(* transformer.ts: extractTextContent as a called function *)

MaxSpans == 2   \* paragraph elements per extractTextContent call

StyledRun(content, url, bold, italic) ==
    [textRun |-> TRUE, pageBreak |-> FALSE, content |-> content, url |-> url,
     bold |-> bold, italic |-> italic]

\* text runs with every combination of link, bold and italic, and an element
\* without a text run
Spans ==
    {StyledRun(c, u, b, it) :
        c \in {<<"a">>, <<"b", NL>>}, u \in {<<>>, <<"u">>}, b \in BOOLEAN, it \in BOOLEAN}
    \cup {PageBreakElement}

InitText ==
    /\ input \in SeqsUpTo(Spans, MaxSpans)
    /\ output = <<>>
    /\ origin = <<>>
    /\ pc = "extract"
    /\ doc = NoDocument
    /\ threads = <<>>
    /\ TransformIdle
    /\ elements = <<>>
    /\ charsPerPage = 0
    /\ PagesIdle
    /\ HistoryIdle

\* extractTextContent(elements)
ExtractCall ==
    /\ pc = "extract"
    /\ output' = ExtractTextContent(input)
    /\ pc' = "extracted"
    /\ UNCHANGED <<input, origin, transformVars, pageVars, historyVars>>

NextText == ExtractCall

SpecText == InitText /\ [][NextText]_vars

\* the rendering the claim gives for one span
SpanRendering(span) ==
    IF ~span.textRun THEN <<>>
    ELSE IF span.url # <<>>
         THEN <<"[">> \o span.content \o <<"]", "(">> \o span.url \o <<")">>
    ELSE IF span.bold /\ span.italic
         THEN <<"*", "*", "_">> \o span.content \o <<"_", "*", "*">>
    ELSE IF span.bold THEN <<"*", "*">> \o span.content \o <<"*", "*">>
    ELSE IF span.italic THEN <<"_">> \o span.content \o <<"_">>
    ELSE span.content

\* C13: extractTextContent renders each span on its own and concatenates in order:
\* a link span is [text](url) whatever its bold and italic flags, otherwise italic
\* wraps first and bold second (bold+italic is **_text_**), a span without style
\* is verbatim and an element without text run contributes nothing.
C13_SpansRenderedInOrder ==
    pc = "extracted" =>
        output = Join([k \in 1..Len(input) |-> SpanRendering(input[k])], <<>>)

\* C13 witness: a bold and italic span without link followed by a bold link span
C13_Witness ==
    /\ pc = "extracted"
    /\ Len(input) = 2
    /\ input[1].textRun /\ input[1].bold /\ input[1].italic /\ input[1].url = <<>>
    /\ input[2].textRun /\ input[2].bold /\ input[2].url # <<>>
    /\ Includes(output, <<"*", "*", "_">>)

-----------------------------------------------------------------------------
(* transformer.ts: getListPrefix as a called function *)

MaxNesting == 2   \* nesting levels of a list item: 0..MaxNesting
MaxLevels == 2    \* entries of a list's nestingLevels

\* glyph formats: none, a bare placeholder, placeholder with a period after or
\* before it, placeholder in brackets, placeholder with a closing bracket only,
\* a period without placeholder
Glyphs ==
    {<<>>, <<"%", "0">>, <<"%", "0", ".">>, <<".", "%", "0">>,
     <<"[", "%", "0", "]">>, <<"%", "0", "]">>, <<"0", ".">>}

ListItem(text, listId, nestingLevel) ==
    [paragraph |-> TRUE, elements |-> <<TextRun(text \o <<NL>>)>>,
     namedStyleType |-> "NORMAL_TEXT", bullet |-> TRUE, listId |-> listId,
     nestingLevel |-> nestingLevel]

\* a document whose only list "L" has the given levels
DocumentWithList(content, levels) ==
    [title |-> <<"T">>, content |-> content, lists |-> [l \in {"L"} |-> levels]]

InitList ==
    /\ \E listId \in {"L", "M"}, nestingLevel \in 0..MaxNesting :
          input = ListItem(<<"a">>, listId, nestingLevel)
    /\ \E levels \in SeqsUpTo(Glyphs, MaxLevels) : doc = DocumentWithList(<<>>, levels)
    /\ output = <<>>
    /\ origin = <<>>
    /\ pc = "prefix"
    /\ threads = <<>>
    /\ TransformIdle
    /\ elements = <<>>
    /\ charsPerPage = 0
    /\ PagesIdle
    /\ HistoryIdle

\* getListPrefix(paragraph, doc)
PrefixCall ==
    /\ pc = "prefix"
    /\ output' = GetListPrefix(input, doc)
    /\ pc' = "prefixed"
    /\ UNCHANGED <<input, origin, transformVars, pageVars, historyVars>>

NextList == PrefixCall

SpecList == InitList /\ [][NextList]_vars

\* the glyph format the item's list holds at the item's level; empty when the
\* list is unknown or has no entry for the level
GlyphOfItem ==
    IF input.listId \in DOMAIN doc.lists
       /\ input.nestingLevel + 1 \in DOMAIN doc.lists[input.listId]
    THEN doc.lists[input.listId][input.nestingLevel + 1]
    ELSE <<>>

Indentation == Repeat(<<" ", " ">>, input.nestingLevel)

\* C14 as stated: two spaces per nesting level, then `1. ` when the glyph format
\* holds a placeholder and ends with a period or a bracket, and `- ` otherwise.
C14_OrderedByTrailingPeriodOrBracket ==
    pc = "prefixed" =>
        LET g == GlyphOfItem
            ordered == /\ Includes(g, <<"%">>)
                       /\ g[Len(g)] \in {".", "]"}
        IN output = Indentation \o (IF ordered THEN <<"1", ".", " ">> ELSE <<"-", " ">>)

\* C14 amended: two spaces per nesting level, then `1. ` when the glyph format
\* holds a placeholder and either holds a period anywhere or begins with an
\* opening bracket, and `- ` otherwise; an unknown list, a missing level or a
\* missing glyph format gives `- `.
C14_OrderedByPeriodOrLeadingBracket ==
    pc = "prefixed" =>
        LET g == GlyphOfItem
            ordered == /\ \E k \in 1..Len(g) : g[k] = "%"
                       /\ \/ \E k \in 1..Len(g) : g[k] = "."
                          \/ (g # <<>> /\ g[1] = "[")
        IN /\ output = Indentation \o (IF ordered THEN <<"1", ".", " ">> ELSE <<"-", " ">>)
           /\ (input.listId \notin DOMAIN doc.lists \/ g = <<>>) =>
                 output = Indentation \o <<"-", " ">>

\* C14 witness: an item at nesting level 1 of a known list whose first level is
\* unordered and whose second level is ordered
C14_Witness ==
    /\ pc = "prefixed"
    /\ input.listId = "L"
    /\ input.nestingLevel = 1
    /\ Len(doc.lists["L"]) = 2
    /\ doc.lists["L"][1] = <<"%", "0">>
    /\ output = <<" ", " ", "1", ".", " ">>

-----------------------------------------------------------------------------
(* transformer.ts: formatCommentThread as a called function *)

MaxComments == 2   \* comments of a thread: the root and its replies

\* comments with one-line, multi-line and empty content, with and without email
Comments ==
    {[authorName |-> n, authorEmail |-> e, content |-> c] :
        n \in {<<"A">>, <<"B">>},
        e \in {<<>>, <<"e">>},
        c \in {<<"x">>, <<"x", NL, "y">>, <<"x", NL>>, <<>>}}

\* threads as convertDriveComments builds them: a root comment and its replies
CommentThreads ==
    {[id |-> 1, anchorId |-> AnchorIdOf(n), quotedText |-> <<"a">>, resolved |-> r,
      comments |-> cs] :
        n \in {1, 12}, r \in BOOLEAN, cs \in SeqsUpTo(Comments, MaxComments) \ {<<>>}}

InitThread ==
    /\ input \in CommentThreads
    /\ output = <<>>
    /\ origin = <<>>
    /\ pc = "format"
    /\ doc = NoDocument
    /\ threads = <<>>
    /\ TransformIdle
    /\ elements = <<>>
    /\ charsPerPage = 0
    /\ PagesIdle
    /\ HistoryIdle

\* formatCommentThread(thread)
FormatCall ==
    /\ pc = "format"
    /\ output' = FormatCommentThread(input)
    /\ pc' = "formatted"
    /\ UNCHANGED <<input, origin, transformVars, pageVars, historyVars>>

NextThread == FormatCall

SpecThread == InitThread /\ [][NextThread]_vars

\* the label the claim gives: <anchorId> resolved on a resolved thread
LabelOf(thread) ==
    thread.anchorId
      \o (IF thread.resolved THEN <<" ", "r", "e", "s", "o", "l", "v", "e", "d">> ELSE <<>>)

\* > [label] **author** (email):
HeaderLineOf(thread, comment) ==
    <<">", " ", "[">> \o LabelOf(thread) \o <<"]", " ", "*", "*">> \o comment.authorName
      \o <<"*", "*", " ", "(">> \o comment.authorEmail \o <<")", ":">>

\* the header line of a comment followed by its content lines, each behind "> "
LinesOfComment(thread, comment) ==
    LET content == Split(comment.content, NL)
    IN <<HeaderLineOf(thread, comment)>>
         \o [k \in 1..Len(content) |-> <<">", " ">> \o content[k]]

RECURSIVE LinesOfThread(_, _)
\* the lines of the comments in order, one bare ">" line between successive comments
LinesOfThread(thread, cs) ==
    IF Len(cs) = 1 THEN LinesOfComment(thread, cs[1])
    ELSE LinesOfComment(thread, cs[1]) \o <<(<<">">>)>> \o LinesOfThread(thread, Tail(cs))

HeaderLinesIn(ls, thread) ==
    {k \in 1..Len(ls) : StartsWith(ls[k], <<">", " ", "[">> \o LabelOf(thread) \o <<"]">>)}

\* C15: formatCommentThread on a thread of k comments gives, in comment order, k
\* header lines `> [label] **author** (email):`, each followed by its comment's
\* content lines behind `> `, with exactly one bare `>` line between successive
\* comments; every line starts with `>` and every header carries the label
\* `<anchorId> resolved` when the thread is resolved and `<anchorId>` otherwise.
C15_BlockquoteLines ==
    pc = "formatted" =>
        LET ls == Split(output, NL)
        IN /\ ls = LinesOfThread(input, input.comments)
           /\ \A k \in 1..Len(ls) : StartsWith(ls[k], <<">">>)
           /\ Cardinality(HeaderLinesIn(ls, input)) = Len(input.comments)
           /\ Cardinality({k \in 1..Len(ls) : ls[k] = <<">">>}) = Len(input.comments) - 1

\* C15 witness: a resolved thread of two comments whose root has two content lines
C15_Witness ==
    /\ pc = "formatted"
    /\ input.resolved
    /\ Len(input.comments) = 2
    /\ input.comments[1].content = <<"x", NL, "y">>
    /\ Includes(output, <<NL, ">", NL>>)

-----------------------------------------------------------------------------
(* transformToMarkdown on documents with headings, titles and list items *)

MaxLayoutBlocks == 3   \* blocks of a layout document

StyledParagraph(text, styleType) == Paragraph(<<TextRun(text \o <<NL>>)>>, styleType)

\* the levels of list "L": level 0 is unordered, level 1 is ordered
LayoutLevels == <<(<<"%", "0">>), (<<"%", "1", ".">>)>>

\* plain, empty, title, empty title and heading paragraphs, a top-level unordered
\* item and a nested ordered item
LayoutBlocks ==
    {TextParagraph(<<"a">>), TextParagraph(<<>>),
     StyledParagraph(<<"a">>, "TITLE"), StyledParagraph(<<>>, "TITLE"),
     StyledParagraph(<<"a">>, "HEADING_1"),
     ListItem(<<"a">>, "L", 0), ListItem(<<"b">>, "L", 1)}

LayoutDocuments ==
    {DocumentWithList(c, LayoutLevels) : c \in SeqsUpTo(LayoutBlocks, MaxLayoutBlocks)}

LayoutThreadLists ==
    {<<>>,
     <<Thread(1, 1, <<"a">>)>>,
     <<Thread(1, 1, <<"b">>)>>,
     <<Thread(1, 1, <<"a">>), Thread(2, 2, <<"b">>)>>}

InitLayout ==
    /\ doc \in LayoutDocuments
    /\ threads \in LayoutThreadLists
    /\ pc = "start"
    /\ TransformIdle
    /\ elements = <<>>
    /\ charsPerPage = 0
    /\ PagesIdle
    /\ CallIdle
    /\ HistoryIdle

SpecLayout == InitLayout /\ [][Next]_vars

\* block k (0-based) is a list item that renders a line
RenderedListItem(k) == k \in RenderedBlocks /\ doc.content[k + 1].bullet

\* some thread's non-empty quoted text occurs in block k
HasMatchingThread(k) == \E t \in ThreadSet : k \in BlocksQuoting(t)

\* the list prefix of block k followed by its text: the line of a list item that
\* no thread matches
PlainItemLine(k) ==
    GetListPrefix(doc.content[k + 1], doc) \o TextContentOf(doc.content[k + 1])

\* the loop is about to render list item idx right after list item idx - 1, which
\* no thread matches
AtSecondOfAdjacentItems ==
    /\ pc = "loop"
    /\ 0 < idx /\ idx < Len(doc.content)
    /\ RenderedListItem(idx - 1)
    /\ RenderedListItem(idx)
    /\ ~HasMatchingThread(idx - 1)

\* the iteration on the second item leaves the lines so far as they are, ending in
\* the first item's line, and puts the second item's line right behind it
AdjacentItemsStep ==
    AtSecondOfAdjacentItems =>
        /\ Len(lines) > 0
        /\ lines[Len(lines)] = PlainItemLine(idx - 1)
        /\ Len(lines') > Len(lines)
        /\ SubSeq(lines', 1, Len(lines)) = lines
        /\ StartsWith(lines'[Len(lines) + 1], GetListPrefix(doc.content[idx + 1], doc))

\* in the returned markdown the first item's line is directly followed by a line
\* that begins with the second item's list prefix
AdjacentItemsInResult ==
    Done =>
        \A k \in 1..(Len(doc.content) - 1) :
            (RenderedListItem(k - 1) /\ RenderedListItem(k) /\ ~HasMatchingThread(k - 1)) =>
                Includes(<<NL>> \o result,
                         <<NL>> \o PlainItemLine(k - 1) \o <<NL>>
                           \o GetListPrefix(doc.content[k + 1], doc))

\* C16: for two list items adjacent in the source, the first without a matching
\* thread, the two lines are adjacent in the output: no blank line between them,
\* for ordered, unordered and nested items alike.
C16_NoBlankBetweenAdjacentItems == [][AdjacentItemsStep]_vars /\ []AdjacentItemsInResult

\* C16 witness: a finished run over an unordered item directly followed by a nested
\* ordered item that a thread matches, the first item unmatched
C16_Witness ==
    /\ Done
    /\ \E k \in 1..(Len(doc.content) - 1) :
          /\ RenderedListItem(k - 1) /\ RenderedListItem(k)
          /\ ~HasMatchingThread(k - 1)
          /\ HasMatchingThread(k)
          /\ doc.content[k].nestingLevel = 0
          /\ doc.content[k + 1].nestingLevel = 1

\* the blocks that carry the TITLE style (0-based indices)
TitleBlocks ==
    {k \in 0..(Len(doc.content) - 1) :
        doc.content[k + 1].paragraph /\ doc.content[k + 1].namedStyleType = "TITLE"}

\* the positions of the level-1 heading lines in a sequence of lines
LevelOneHeadings(ls) == {k \in 1..Len(ls) : StartsWith(ls[k], <<"#", " ">>)}

\* C17: the synthetic heading `# <document title>` is the first line exactly when
\* no block carries the TITLE style; a document with a TITLE-styled block has
\* exactly one level-1 heading line in the output, rendered from that block.
\* Stated for documents with at most one TITLE-styled block.
C17_OneLevelOneHeading ==
    Done =>
        LET ls == Split(result, NL)
        IN /\ TitleBlocks = {} =>
                 /\ ls[1] = <<"#", " ">> \o doc.title
                 /\ LevelOneHeadings(ls) = {1}
           /\ Cardinality(TitleBlocks) = 1 =>
                 /\ Cardinality(LevelOneHeadings(ls)) = 1
                 /\ \A k \in LevelOneHeadings(ls) : \A b \in TitleBlocks :
                       Includes(ls[k], TextContentOf(doc.content[b + 1]))

\* the loop is about to render a list item that some thread matches
AtMatchedListItem ==
    /\ pc = "loop"
    /\ idx < Len(doc.content)
    /\ RenderedListItem(idx)
    /\ HasMatchingThread(idx)

\* the iteration pushes the item's line and, directly behind it, blockquote lines
\* only: no empty line between the item and the first blockquote, none after the
\* blockquotes
BlockquotesFollowItemStep ==
    AtMatchedListItem =>
        \E p \in (Len(lines) + 1)..(Len(lines') - 1) :
            /\ StartsWith(lines'[p], GetListPrefix(doc.content[idx + 1], doc))
            /\ \A j \in (p + 1)..Len(lines') : StartsWith(lines'[j], <<">">>)

\* C20: the blockquotes of a list item's matching threads come directly after the
\* item's line, with no blank line between the item line and the first blockquote
\* line, and no blank line after the blockquotes.
C20_BlockquotesDirectlyAfterItem == [][BlockquotesFollowItemStep]_vars

-----------------------------------------------------------------------------
(* transformer.ts: convertDriveComments *)

MaxDriveComments == 2   \* comments per convertDriveComments call
MaxReplies == 2         \* replies per comment

\* A Drive comment is [id, content, resolved, hasQuoted, quotedValue, author, replies];
\* hasQuoted = FALSE stands for a missing quotedFileContent. An author is
\* [displayName, hasEmail, emailAddress]; hasEmail = FALSE stands for a missing
\* emailAddress.

\* comment.author.emailAddress || ''
EmailOf(author) == IF author.hasEmail THEN author.emailAddress ELSE <<>>

\* comment.quotedFileContent?.value || ''
QuotedTextOf(comment) == IF comment.hasQuoted THEN comment.quotedValue ELSE <<>>

\* variant: every resolved comment is dropped
KeepsCommentUnresolvedOnly(comment) == ~comment.resolved

\* the filter: !comment.resolved || comment.quotedFileContent
KeepsComment(comment) == ~comment.resolved \/ comment.hasQuoted

RECURSIVE KeptComments(_)
KeptComments(cs) ==
    IF cs = <<>> THEN <<>>
    ELSE (IF KeepsComment(cs[1]) THEN <<cs[1]>> ELSE <<>>) \o KeptComments(Tail(cs))

ConvertRoot(comment) ==
    [authorName |-> comment.author.displayName, authorEmail |-> EmailOf(comment.author),
     content |-> comment.content, isReply |-> FALSE]

RECURSIVE ConvertReplies(_)
ConvertReplies(rs) ==
    IF rs = <<>> THEN <<>>
    ELSE <<[authorName |-> rs[1].author.displayName,
            authorEmail |-> EmailOf(rs[1].author),
            content |-> rs[1].content, isReply |-> TRUE]>>
         \o ConvertReplies(Tail(rs))

RECURSIVE ConvertFrom(_, _)
\* the map over the kept comments, from the 0-based index on
ConvertFrom(cs, index) ==
    IF cs = <<>> THEN <<>>
    ELSE <<[id |-> cs[1].id,
            anchorId |-> AnchorIdOf(index + 1),
            quotedText |-> QuotedTextOf(cs[1]),
            resolved |-> cs[1].resolved,
            comments |-> <<ConvertRoot(cs[1])>> \o ConvertReplies(cs[1].replies)]>>
         \o ConvertFrom(Tail(cs), index + 1)

ConvertDriveComments(cs) == ConvertFrom(KeptComments(cs), 0)

Author(name, hasEmail) ==
    [displayName |-> name, hasEmail |-> hasEmail,
     emailAddress |-> IF hasEmail THEN name \o <<"@">> ELSE <<>>]

ReplyKinds ==
    {[content |-> <<"r">>, author |-> Author(<<"B">>, FALSE)],
     [content |-> <<"s">>, author |-> Author(<<"C">>, TRUE)]}

\* quotedFileContent: missing, present with an empty value, present with text
QuotedKinds == {<<FALSE, <<>>>>, <<TRUE, <<>>>>, <<TRUE, <<"a">>>>}

\* the k-th comment of a call; the replies and the root's email are the same for
\* all comments of one call
DriveComment(k, resolved, quoted, hasEmail, replies) ==
    [id |-> k, content |-> <<"x">>, resolved |-> resolved,
     hasQuoted |-> quoted[1], quotedValue |-> quoted[2],
     author |-> Author(<<"A">>, hasEmail), replies |-> replies]

DriveCommentLists ==
    {[k \in 1..Len(ks) |-> DriveComment(k, ks[k][1], ks[k][2], hasEmail, replies)] :
        ks \in SeqsUpTo(BOOLEAN \X QuotedKinds, MaxDriveComments),
        hasEmail \in BOOLEAN,
        replies \in SeqsUpTo(ReplyKinds, MaxReplies)}

InitConvert ==
    /\ input \in DriveCommentLists
    /\ output = <<>>
    /\ origin = <<>>
    /\ pc = "convert"
    /\ doc = NoDocument
    /\ threads = <<>>
    /\ TransformIdle
    /\ elements = <<>>
    /\ charsPerPage = 0
    /\ PagesIdle
    /\ HistoryIdle

\* convertDriveComments(comments)
ConvertCall ==
    /\ pc = "convert"
    /\ output' = ConvertDriveComments(input)
    /\ pc' = "converted"
    /\ UNCHANGED <<input, origin, transformVars, pageVars, historyVars>>

NextConvert == ConvertCall

SpecConvert == InitConvert /\ [][NextConvert]_vars

\* the positions of the comments that are unresolved or carry quoted file content
KeptDrivePositions == {k \in 1..Len(input) : ~input[k].resolved \/ input[k].hasQuoted}

\* C18: convertDriveComments keeps, in input order, exactly the comments that are
\* unresolved or carry quoted file content, numbers the kept threads c1..cN after
\* the filtering, and gives each thread the root comment (isReply false) followed
\* by the replies in their order (isReply true); a missing quoted content or
\* email becomes the empty string.
C18_KeepsAndNumbersThreads ==
    pc = "converted" =>
        /\ Len(output) = Cardinality(KeptDrivePositions)
        /\ \A n \in 1..Len(output) :
              LET c == input[NthOf(KeptDrivePositions, n)]
                  t == output[n]
              IN /\ t.id = c.id
                 /\ t.anchorId = AnchorIdOf(n)
                 /\ t.resolved = c.resolved
                 /\ t.quotedText = (IF c.hasQuoted THEN c.quotedValue ELSE <<>>)
                 /\ Len(t.comments) = 1 + Len(c.replies)
                 /\ t.comments[1] =
                       [authorName |-> c.author.displayName,
                        authorEmail |-> (IF c.author.hasEmail THEN c.author.emailAddress
                                         ELSE <<>>),
                        content |-> c.content, isReply |-> FALSE]
                 /\ \A j \in 1..Len(c.replies) :
                       t.comments[j + 1] =
                          [authorName |-> c.replies[j].author.displayName,
                           authorEmail |-> (IF c.replies[j].author.hasEmail
                                            THEN c.replies[j].author.emailAddress
                                            ELSE <<>>),
                           content |-> c.replies[j].content, isReply |-> TRUE]

\* C18 witness: the first comment is resolved without quoted content and dropped,
\* the second is resolved with quoted content and kept as c1, with two different
\* replies and no email on the root
C18_Witness ==
    /\ pc = "converted"
    /\ Len(input) = 2
    /\ input[1].resolved /\ ~input[1].hasQuoted
    /\ input[2].resolved /\ input[2].hasQuoted
    /\ ~input[2].author.hasEmail
    /\ Len(input[2].replies) = 2
    /\ input[2].replies[1] # input[2].replies[2]
    /\ Len(output) = 1
    /\ output[1].anchorId = AnchorIdOf(1)

-----------------------------------------------------------------------------
(* history.svelte.ts: the conversion history store *)

MAX_ENTRIES == 50

MaxDocIds == 51       \* documents never converted before that are added: 1..MaxDocIds
MaxOtherCalls == 1    \* calls that re-add or remove an entry or clear the history
MaxMargin == 1        \* such calls are made on lists of at most MaxMargin entries and
                      \* on lists within MaxMargin entries of the cap

\* A HistoryEntry is [docId, commentCount]; localStorage is <<>> while no item is
\* stored under STORAGE_KEY and <<entries>> once the list has been stored.

RECURSIVE KeepsEveryEntry(_, _)
\* variant: the entry with the same docId stays in the list
KeepsEveryEntry(es, docId) ==
    IF es = <<>> THEN <<>> ELSE <<es[1]>> \o KeepsEveryEntry(Tail(es), docId)

RECURSIVE WithoutDocId(_, _)
\* entries.filter(e => e.docId !== docId)
WithoutDocId(es, docId) ==
    IF es = <<>> THEN <<>>
    ELSE (IF es[1].docId # docId THEN <<es[1]>> ELSE <<>>) \o WithoutDocId(Tail(es), docId)

\* if (entries.length > MAX_ENTRIES) entries = entries.slice(0, MAX_ENTRIES)
EnforceCap(es) == IF Len(es) > MAX_ENTRIES THEN SubSeq(es, 1, MAX_ENTRIES) ELSE es

\* the list addEntry(entry) leaves
AddedTo(es, entry) == EnforceCap(<<entry>> \o WithoutDocId(es, entry.docId))

\* persist(): setItem stores the list unless localStorage throws
Persisted(es) == IF storageAvailable THEN <<es>> ELSE localStorage

InitHistory ==
    /\ entries = <<>>
    /\ localStorage = <<>>
    /\ storageAvailable \in BOOLEAN
    /\ nextDocId = 1
    /\ otherCalls = 0
    /\ pc = "history"
    /\ CallIdle
    /\ doc = NoDocument
    /\ threads = <<>>
    /\ TransformIdle
    /\ elements = <<>>
    /\ charsPerPage = 0
    /\ PagesIdle

\* the list is short or nearly full
NearAnEnd == Len(entries) <= MaxMargin \/ Len(entries) + MaxMargin >= MAX_ENTRIES

\* the docIds of list entries that an explored call names: the newest entry and
\* the oldest entry (removeEntry also names 0, a document that is not in the list)
NamedDocIds ==
    (IF entries = <<>> THEN {} ELSE {entries[1].docId, entries[Len(entries)].docId})

\* addEntry(entry) for a document never converted before
AddNewEntry ==
    /\ pc \in {"history", "addEntry", "removeEntry", "clearHistory"}
    /\ nextDocId <= MaxDocIds
    /\ LET entry == [docId |-> nextDocId, commentCount |-> 0]
       IN /\ input' = entry
          /\ entries' = AddedTo(entries, entry)
          /\ localStorage' = Persisted(AddedTo(entries, entry))
    /\ nextDocId' = nextDocId + 1
    /\ pc' = "addEntry"
    /\ UNCHANGED <<origin, output, storageAvailable, otherCalls>>
    /\ UNCHANGED <<transformVars, pageVars>>

\* addEntry(entry) for a document that is in the list, with a new comment count
AddEntryAgain ==
    /\ pc \in {"history", "addEntry", "removeEntry", "clearHistory"}
    /\ otherCalls < MaxOtherCalls
    /\ NearAnEnd
    /\ \E docId \in NamedDocIds :
          LET entry == [docId |-> docId, commentCount |-> 1]
          IN /\ input' = entry
             /\ entries' = AddedTo(entries, entry)
             /\ localStorage' = Persisted(AddedTo(entries, entry))
    /\ otherCalls' = otherCalls + 1
    /\ pc' = "addEntry"
    /\ UNCHANGED <<origin, output, storageAvailable, nextDocId>>
    /\ UNCHANGED <<transformVars, pageVars>>

\* removeEntry(docId): returns false and stores nothing when no entry goes
RemoveEntry ==
    /\ pc \in {"history", "addEntry", "removeEntry", "clearHistory"}
    /\ otherCalls < MaxOtherCalls
    /\ NearAnEnd
    /\ \E docId \in NamedDocIds \cup {0} :
          LET rest == WithoutDocId(entries, docId)
              found == Len(rest) # Len(entries)
          IN /\ input' = docId
             /\ entries' = rest
             /\ output' = found
             /\ localStorage' = IF found THEN Persisted(rest) ELSE localStorage
    /\ otherCalls' = otherCalls + 1
    /\ pc' = "removeEntry"
    /\ UNCHANGED <<origin, storageAvailable, nextDocId>>
    /\ UNCHANGED <<transformVars, pageVars>>

\* clearHistory(): empties the list and removes the stored item
ClearHistory ==
    /\ pc \in {"history", "addEntry", "removeEntry", "clearHistory"}
    /\ otherCalls < MaxOtherCalls
    /\ NearAnEnd
    /\ entries' = <<>>
    /\ localStorage' = IF storageAvailable THEN <<>> ELSE localStorage
    /\ otherCalls' = otherCalls + 1
    /\ pc' = "clearHistory"
    /\ UNCHANGED <<origin, input, output, storageAvailable, nextDocId>>
    /\ UNCHANGED <<transformVars, pageVars>>

NextHistory == AddNewEntry \/ AddEntryAgain \/ RemoveEntry \/ ClearHistory

SpecHistory == InitHistory /\ [][NextHistory]_vars

DocIdsOf(es) == {es[k].docId : k \in 1..Len(es)}

\* at most MAX_ENTRIES entries, no two with the same docId
HistoryWellFormed ==
    pc \in {"history", "addEntry", "removeEntry", "clearHistory"} =>
        /\ Len(entries) <= MAX_ENTRIES
        /\ Cardinality(DocIdsOf(entries)) = Len(entries)

\* a call of addEntry puts its entry at index 0 and keeps behind it, in their
\* order, the other entries that were there, cut at the end to MAX_ENTRIES in all
AddEntryRule ==
    pc' = "addEntry" =>
        LET others == SelectSeq(entries, LAMBDA e : e.docId # input'.docId)
            kept == IF 1 + Len(others) > MAX_ENTRIES THEN MAX_ENTRIES - 1 ELSE Len(others)
        IN /\ entries'[1] = input'
           /\ Len(entries') = 1 + kept
           /\ \A k \in 1..kept : entries'[k + 1] = others[k]

\* C19: after any sequence of addEntry, removeEntry and clearHistory from an empty
\* history the list holds at most 50 entries with pairwise distinct docIds, most
\* recently added first: addEntry removes the entry with the same docId, puts the
\* new entry at index 0, keeps the order of the others and drops the entries at
\* the end when the list would exceed 50.
C19_HistoryCappedDistinctNewestFirst == [][AddEntryRule]_vars /\ []HistoryWellFormed

\* C19 witness: the list is full, an entry that had been re-added is in it, and
\* a document added earlier has been dropped at the end
C19_Witness ==
    /\ pc = "addEntry"
    /\ Len(entries) = MAX_ENTRIES
    /\ entries[1].docId = MAX_ENTRIES + 1
    /\ \E k \in 1..Len(entries) : entries[k].commentCount = 1
    /\ \E d \in 1..MAX_ENTRIES : d \notin DocIdsOf(entries)

-----------------------------------------------------------------------------
(* Properties of the returned markdown as a whole *)

\* the lines of the returned markdown, without the empty piece behind the final newline
ResultLines ==
    LET ls == Split(result, NL) IN SubSeq(ls, 1, Len(ls) - 1)

\* a line that begins with the list prefix of a rendered list item of the document
IsListItemLine(l) ==
    \E k \in RenderedBlocks :
        doc.content[k + 1].bullet /\ StartsWith(l, GetListPrefix(doc.content[k + 1], doc))

\* the line of a non-list block: not blank, no list item and no blockquote line
IsNonListBlockLine(l) == l # <<>> /\ ~StartsWith(l, <<">">>) /\ ~IsListItemLine(l)

\* C21: in the returned markdown a list-item line and the line of a non-list block
\* are never adjacent, in either order: at least one blank line lies between them,
\* also when text-less blocks lie between the list item and the non-list block.
C21_BlankLineAroundListRuns ==
    Done =>
        LET ls == ResultLines
        IN \A k \in 1..(Len(ls) - 1) :
              /\ ~(IsListItemLine(ls[k]) /\ IsNonListBlockLine(ls[k + 1]))
              /\ ~(IsNonListBlockLine(ls[k]) /\ IsListItemLine(ls[k + 1]))

\* C22: the returned string ends with exactly one newline, has no whitespace
\* before that final newline and holds no run of three or more newlines, however
\* many blank lines the loop pushed.
C22_OneFinalNewlineNoBlankRuns ==
    Done =>
        /\ Len(result) >= 1
        /\ result[Len(result)] = NL
        /\ Len(result) >= 2 => result[Len(result) - 1] \notin WhiteSpace
        /\ ~Includes(result, <<NL, NL, NL>>)

\* C22 witness: a finished run whose joined lines hold a run of four newlines
\* inside the text and end in blank lines
C22_Witness ==
    /\ Done
    /\ Includes(TrimEnd(Join(lines, <<NL>>)), <<NL, NL, NL, NL>>)
    /\ Len(lines) >= 2
    /\ lines[Len(lines)] = <<>>
    /\ lines[Len(lines) - 1] = <<>>

-----------------------------------------------------------------------------
(* insertAnchors as a state machine: one step per iteration of its loop *)

MaxAnchorLine == 3      \* characters of the line passed to insertAnchors
MaxAnchorThreads == 2   \* threads passed to insertAnchors

\* a letter, the letter anchor ids begin with, and a regular-expression metacharacter
AnchorAlphabet == {"a", "c", "."}

\* quoted texts: none, single characters, and two texts that overlap in "aca" and
\* contain the one-character texts
AnchorQuotes == {<<>>, <<"a">>, <<"c">>, <<".">>, <<"a", "c">>, <<"c", "a">>}

AnchorThreadLists ==
    {[k \in 1..Len(qs) |-> Thread(k, k, qs[k])] : qs \in SeqsUpTo(AnchorQuotes, MaxAnchorThreads)}

InitAnchors ==
    /\ input \in StringsUpTo(AnchorAlphabet, MaxAnchorLine)
    /\ threads \in AnchorThreadLists
    /\ output = <<>>
    /\ origin = <<>>
    /\ pc = "insertAnchors"
    /\ doc = NoDocument
    /\ TransformIdle
    /\ elements = <<>>
    /\ charsPerPage = 0
    /\ PagesIdle
    /\ HistoryIdle

\* the thread the loop of insertAnchors is at
CurrentThread == SortedThreads(threads)[idx + 1]

\* line 116 and lines 119-121: let result = text, and the sorted copy of the threads
AnchorsBegin ==
    /\ pc = "insertAnchors"
    /\ output' = input
    /\ origin' = [k \in 1..Len(input) |-> k]
    /\ idx' = 0
    /\ pc' = "anchorLoop"
    /\ UNCHANGED <<input, doc, threads, lines, prevWasList, result>>
    /\ UNCHANGED <<pageVars, historyVars>>

\* line 124: if (!thread.quotedText) continue
AnchorSkip ==
    /\ pc = "anchorLoop"
    /\ idx < Len(threads)
    /\ CurrentThread.quotedText = <<>>
    /\ idx' = idx + 1
    /\ UNCHANGED <<input, output, origin, pc, doc, threads, lines, prevWasList, result>>
    /\ UNCHANGED <<pageVars, historyVars>>

\* lines 126-136: the replacement for a thread with quoted text
AnchorReplace ==
    /\ pc = "anchorLoop"
    /\ idx < Len(threads)
    /\ CurrentThread.quotedText # <<>>
    /\ LET t == CurrentThread
           k == MatchIndex(output, t.quotedText)
           n == Len(t.quotedText)
       IN /\ output' = ReplaceFirst(output, t.quotedText, AnchorMarker(t))
          /\ origin' = IF k = 0 THEN origin
                       ELSE SubSeq(origin, 1, k - 1) \o <<0>> \o SubSeq(origin, k, k + n - 1)
                            \o [j \in 1..(4 + Len(t.anchorId)) |-> 0]
                            \o SubSeq(origin, k + n, Len(origin))
    /\ idx' = idx + 1
    /\ UNCHANGED <<input, pc, doc, threads, lines, prevWasList, result>>
    /\ UNCHANGED <<pageVars, historyVars>>

\* line 139: return result
AnchorsReturn ==
    /\ pc = "anchorLoop"
    /\ idx = Len(threads)
    /\ pc' = "anchored"
    /\ UNCHANGED <<input, output, origin, transformVars, pageVars, historyVars>>

NextAnchors == AnchorsBegin \/ AnchorSkip \/ AnchorReplace \/ AnchorsReturn

SpecAnchors == InitAnchors /\ [][NextAnchors]_vars

\* the positions at which the text q stands in s, character for character
LiteralPositions(s, q) == {k \in 1..(Len(s) - Len(q) + 1) : SubSeq(s, k, k + Len(q) - 1) = q}

\* an iteration for a thread with quoted text q rewrites the line so: without an
\* occurrence of q the line stays; otherwise the characters before the leftmost
\* occurrence stay, the occurrence becomes [q]^[anchorId], and everything behind
\* it, later occurrences of q included, stays character for character
LeftmostOnlyStep ==
    (pc = "anchorLoop" /\ idx < Len(threads) /\ CurrentThread.quotedText # <<>>) =>
        LET q == CurrentThread.quotedText
            at == LiteralPositions(output, q)
        IN IF at = {} THEN output' = output
           ELSE LET k == CHOOSE k \in at : \A m \in at : k <= m
                IN output' = SubSeq(output, 1, k - 1)
                               \o <<"[">> \o q \o <<"]", "^", "[">> \o CurrentThread.anchorId
                               \o <<"]">>
                               \o SubSeq(output, k + Len(q), Len(output))

Reorderings(ths) ==
    LET n == Len(ths)
        perms == {p \in [1..n -> 1..n] : \A j, k \in 1..n : j # k => p[j] # p[k]}
        keeps(p) == \A j, k \in 1..n :
                       (j < k /\ Len(ths[p[j]].quotedText) = Len(ths[p[k]].quotedText))
                           => p[j] < p[k]
    IN {[k \in 1..n |-> ths[p[k]]] : p \in {q \in perms : keeps(q)}}

\* every thread of the call has a non-empty quoted text that stands in the line,
\* and no two threads quote the same text
AllQuotesInLine ==
    /\ \A k \in 1..Len(threads) :
          threads[k].quotedText # <<>> /\ LiteralPositions(input, threads[k].quotedText) # {}
    /\ \A j, k \in 1..Len(threads) : j # k => threads[j].quotedText # threads[k].quotedText

\* C24: when the quoted texts of all threads are substrings of the line (here:
\* pairwise different ones), nested and overlapping ones included, the returned
\* line holds for each thread exactly one marker [<its quoted text>]^[<its
\* anchorId>], and the result is the same for every order in which threads of
\* different quote lengths are supplied.
C24_OneMarkerPerThread ==
    (pc = "anchored" /\ AllQuotesInLine) =>
        /\ \A k \in 1..Len(threads) :
              Cardinality(LiteralPositions(output, AnchorMarker(threads[k]))) = 1
        /\ \A ths \in Reorderings(threads) : InsertAnchors(input, ths) = output

\* the characters of the line that are not inserted ones, in order
WithoutInserted ==
    LET kept == {k \in 1..Len(output) : origin[k] # 0}
    IN [n \in 1..Cardinality(kept) |-> output[NthOf(kept, n)]]

\* an iteration that finds the quoted text finds it in characters of the original
\* line only, never in a character inserted for an earlier thread
MatchInOriginalTextStep ==
    (pc = "anchorLoop" /\ idx < Len(threads) /\ CurrentThread.quotedText # <<>>) =>
        LET q == CurrentThread.quotedText
            at == LiteralPositions(output, q)
        IN at # {} =>
              LET k == CHOOSE k \in at : \A m \in at : k <= m
              IN \A j \in k..(k + Len(q) - 1) : origin[j] # 0

\* deleting the inserted characters from the returned line gives the original line
InsertedCharactersOnly == pc = "anchored" => WithoutInserted = input

\* C29: insertAnchors only wraps characters of the original line: the search for a
\* thread's quoted text never matches inside the marker syntax or anchor id
\* inserted for an earlier thread, and deleting the inserted marker characters
\* gives back the original line.
C29_WrapsOriginalTextOnly == [][MatchInOriginalTextStep]_vars /\ []InsertedCharactersOnly

\* C25: each matching thread's blockquote is a block of its own: a blank line
\* stands before the first header line of every thread's blockquote, between the
\* paragraph and the first blockquote as well as between the blockquotes of two
\* threads. Every explored thread has one comment, so each header line begins a
\* thread's blockquote.
C25_BlockquotesAreSeparateBlocks ==
    Done =>
        LET ls == ResultLines
        IN \A k \in 1..Len(ls) :
              (\E t \in ThreadSet : StartsWith(ls[k], HeaderHead(t)))
                  => (k > 1 /\ ls[k - 1] = <<>>)

-----------------------------------------------------------------------------
(* Further properties of estimatePages *)

\* the sum of the text lengths of the text runs of the blocks s..e-1
RECURSIVE TextLengthOfRange(_, _)
TextLengthOfRange(s, e) ==
    IF s >= e THEN 0
    ELSE LET b == elements[s + 1]
             runs == IF b.paragraph
                     THEN {k \in 1..Len(b.elements) : b.elements[k].textRun}
                     ELSE {}
         IN SumOver([k \in runs |-> Len(b.elements[k].content)], runs)
            + TextLengthOfRange(s + 1, e)

\* C26: every page's charCount is the sum of the text lengths of exactly the
\* blocks in its range: a block that starts a page after a budget split counts on
\* the new page only and a page-break block counts on no page.
C26_CharCountOfOwnRange ==
    Estimated =>
        \A p \in PageSet :
            p.charCount = TextLengthOfRange(p.startElementIndex, p.endElementIndex)

\* C26 witness: a finished estimate in which a budget split starts a page at a
\* block with text and a page-break block with text separates two pages
C26_Witness ==
    /\ Estimated
    /\ \E m, n \in 1..(Len(pages) - 1) :
          /\ pages[m].endElementIndex = pages[m + 1].startElementIndex
          /\ pages[m].charCount > 0
          /\ pages[m + 1].charCount > 0
          /\ pages[n].endElementIndex + 1 = pages[n + 1].startElementIndex
          /\ HasPageBreak(elements[pages[n].endElementIndex + 1])
          /\ GetElementCharCount(elements[pages[n].endElementIndex + 1]) > 0

\* C30: no returned page has an empty block range, wherever page-break blocks
\* stand (leading, trailing, consecutive), except the single page returned for an
\* input without any non-break block; the pages are numbered 1..k without a gap.
C30_NoEmptyPage ==
    Estimated =>
        /\ \A n \in 1..Len(pages) : pages[n].pageNumber = n
        /\ Len(pages) >= 1
        /\ IF BlockIndices \ BreakIndices = {}
           THEN Len(pages) = 1
           ELSE \A p \in PageSet : p.startElementIndex < p.endElementIndex

\* C30 witness: a finished estimate of an input that begins with a page break,
\* ends with two page breaks in a row and has a block without break between them
C30_Witness ==
    /\ Estimated
    /\ Len(elements) >= 4
    /\ 0 \in BreakIndices
    /\ 1 \notin BreakIndices
    /\ Len(elements) - 1 \in BreakIndices
    /\ Len(elements) - 2 \in BreakIndices
    /\ Len(pages) = 1
    /\ pages[1].startElementIndex = 1

-----------------------------------------------------------------------------
(* filterAndRenumberThreads followed by transformToMarkdown on the same blocks *)

\* a paragraph "ab" whose first character is bold
BoldStartParagraph ==
    Paragraph(<<StyledRun(<<"a">>, <<>>, TRUE, FALSE), TextRun(<<"b", NL>>)>>, "NORMAL_TEXT")

RenderDocuments ==
    {[title |-> <<"T">>, content |-> c, lists |-> <<>>] :
        c \in RenumberElements \cup {<<BoldStartParagraph>>}}

InitRender ==
    /\ doc \in RenderDocuments
    /\ elements = doc.content
    /\ threads \in RenumberThreadLists
    /\ pc = "threads"
    /\ CallIdle
    /\ TransformIdle
    /\ charsPerPage = 0
    /\ PagesIdle
    /\ HistoryIdle

\* transformToMarkdown(doc, kept threads) on the blocks the threads were filtered for
RenderKeptCall ==
    /\ pc = "renumbered"
    /\ result' = TransformToMarkdown(doc, output)
    /\ pc' = "rendered"
    /\ UNCHANGED <<doc, threads, lines, prevWasList, idx>>
    /\ UNCHANGED <<pageVars, callVars, historyVars>>

NextRender == FilterThreadsCall \/ RenderKeptCall

SpecRender == InitRender /\ [][NextRender]_vars

\* C27: every thread that filterAndRenumberThreads keeps for the blocks is
\* anchored when transformToMarkdown renders these blocks with the kept threads:
\* each of c1..cN has its marker and its blockquote in the markdown, also when
\* the quoted text spans two adjacent blocks or styled text.
C27_KeptThreadsAreAnchored ==
    pc = "rendered" =>
        \A n \in 1..Len(output) :
            /\ output[n].anchorId = AnchorIdOf(n)
            /\ LiteralPositions(result, MarkerTail(output[n])) # {}
            /\ LiteralPositions(result, HeaderHead(output[n])) # {}

-----------------------------------------------------------------------------
(* transformToMarkdown on headings, subtitles and list items whose text holds
   characters of the structural prefixes *)

MaxPrefixBlocks == 1   \* blocks of such a document

\* one-character texts: a letter and the characters the prefixes are made of
PrefixTexts == {<<"a">>, <<"1">>, <<"#">>, <<"-">>, <<"_">>}

\* a heading, a subtitle, a top-level unordered item and a nested ordered item
PrefixBlocks ==
    UNION {{StyledParagraph(t, "HEADING_1"), StyledParagraph(t, "SUBTITLE"),
            ListItem(t, "L", 0), ListItem(t, "L", 1)} : t \in PrefixTexts}

PrefixDocuments ==
    {DocumentWithList(c, LayoutLevels) : c \in SeqsUpTo(PrefixBlocks, MaxPrefixBlocks)}

\* no thread, or one thread quoting one of the texts
PrefixThreadLists == {<<>>} \cup {<<Thread(1, 1, q)>> : q \in PrefixTexts}

InitPrefixed ==
    /\ doc \in PrefixDocuments
    /\ threads \in PrefixThreadLists
    /\ pc = "start"
    /\ TransformIdle
    /\ elements = <<>>
    /\ charsPerPage = 0
    /\ PagesIdle
    /\ CallIdle
    /\ HistoryIdle

SpecPrefixed == InitPrefixed /\ [][Next]_vars

\* the structural prefix of a block's line: list prefix, heading prefix or the
\* opening underscore of a subtitle
StructuralPrefix(block) ==
    IF block.bullet
    THEN Repeat(<<" ", " ">>, block.nestingLevel)
           \o (IF block.nestingLevel = 1 THEN <<"1", ".", " ">> ELSE <<"-", " ">>)
    ELSE IF block.namedStyleType = "SUBTITLE" THEN <<"_">>
    ELSE IF block.namedStyleType = "HEADING_1" THEN <<"#", "#", " ">>
    ELSE <<>>

\* the first line that is not blank among the lines an iteration pushed
FirstPushedLine ==
    LET at == {k \in (Len(lines) + 1)..Len(lines') : lines'[k] # <<>>}
    IN lines'[CHOOSE k \in at : \A m \in at : k <= m]

\* the iteration on a block that a thread matches emits a line that begins with
\* the block's structural prefix
PrefixKeptStep ==
    (pc = "loop" /\ idx < Len(doc.content) /\ idx \in RenderedBlocks /\ HasMatchingThread(idx))
        => StartsWith(FirstPushedLine, StructuralPrefix(doc.content[idx + 1]))

\* C28: anchor insertion never changes the structural prefix of a line: a heading,
\* subtitle or list-item line with matching threads starts with the same prefix as
\* without threads, also when the quoted text equals characters of the prefix.
C28_PrefixUnchangedByAnchors == [][PrefixKeptStep]_vars

====
